---- MODULE Spec2Model ----
(***************************************************************************)
(* Model of script/logfiles_check.py of dlsnode: the block-file            *)
(* consistency checker and repairer, the size-index generator and the      *)
(* size-index codec.                                                       *)
(*                                                                         *)
(* A block file is a sequence of bytes (0..255).  A path is a sequence of  *)
(* components (the pieces between '/'), each component a sequence of       *)
(* one-character strings.  The file system is a function from the paths of *)
(* the regular files to their bytes.                                       *)
(***************************************************************************)
EXTENDS Integers, Sequences, FiniteSets, TLC

\* ------------------------------------------------------------------ bounds
\* longest sequence of records a generated block file starts from
MaxRecs == 2
\* most bytes a truncation drops from the end of a generated block file
MaxTrunc == 9
\* the error counter of check_file stops counting here (it is unbounded in
\* the program; no scan of a readable generated file gets near it)
MaxErrors == 16

\* Largest integer the model computes with.  Stream positions and the sizes
\* of read requests stop there ("Huge or more"): no file of the model is
\* that long, so nothing is read from such a position.
Huge == (1073741823 * 2) + 1

Min(a, b) == IF a < b THEN a ELSE b

\* ------------------------------------------------------- Python integers
\* The numbers the program decodes, compares, sums and subtracts are Python
\* integers of any size: a 64-bit field, a sum of such fields, a difference
\* below zero.  Such a number is [neg, mag]: its sign and the digits of its
\* magnitude to the base 256, least significant first, the last one not 0
\* (none for 0, which is not negative).
\* digits without the zeros at their most significant end
strip(d) ==
    LET used == {i \in 1..Len(d) : d[i] # 0}
    IN  IF used = {} THEN <<>>
        ELSE SubSeq(d, 1, CHOOSE i \in used : \A j \in used : j <= i)

\* the digits of an integer of the model that is not negative
magnitude(n) ==
    strip(<<n % 256, (n \div 256) % 256, (n \div 65536) % 256,
            n \div 16777216>>)

\* the Python integer of an integer of the model
long(n) == [neg |-> n < 0, mag |-> magnitude(IF n < 0 THEN 0 - n ELSE n)]

\* a < b of two magnitudes
mag_lt(a, b) ==
    \/ Len(a) < Len(b)
    \/ /\ Len(a) = Len(b)
       /\ \E i \in 1..Len(a) :
             /\ a[i] < b[i]
             /\ \A j \in (i + 1)..Len(a) : a[j] = b[j]

\* a + b + carry of two magnitudes
RECURSIVE mag_add(_, _, _)
mag_add(a, b, carry) ==
    IF a = <<>> /\ b = <<>>
    THEN (IF carry = 0 THEN <<>> ELSE <<carry>>)
    ELSE LET x == IF a = <<>> THEN 0 ELSE Head(a)
             y == IF b = <<>> THEN 0 ELSE Head(b)
             s == x + y + carry
         IN  <<s % 256>> \o mag_add(IF a = <<>> THEN a ELSE Tail(a),
                                    IF b = <<>> THEN b ELSE Tail(b),
                                    s \div 256)

\* a - b - borrow of two magnitudes, b + borrow not above a; the digits are
\* not stripped
RECURSIVE mag_sub(_, _, _)
mag_sub(a, b, borrow) ==
    IF a = <<>> THEN <<>>
    ELSE LET y == (IF b = <<>> THEN 0 ELSE Head(b)) + borrow
             d == Head(a) - y
         IN  <<IF d < 0 THEN d + 256 ELSE d>>
             \o mag_sub(Tail(a), IF b = <<>> THEN b ELSE Tail(b),
                        IF d < 0 THEN 1 ELSE 0)

\* -a
long_neg(a) == IF a.mag = <<>> THEN a ELSE [neg |-> ~a.neg, mag |-> a.mag]

\* a + b
long_add(a, b) ==
    IF a.neg = b.neg THEN [neg |-> a.neg, mag |-> mag_add(a.mag, b.mag, 0)]
    ELSE IF a.mag = b.mag THEN [neg |-> FALSE, mag |-> <<>>]
    ELSE IF mag_lt(a.mag, b.mag)
    THEN [neg |-> b.neg, mag |-> strip(mag_sub(b.mag, a.mag, 0))]
    ELSE [neg |-> a.neg, mag |-> strip(mag_sub(a.mag, b.mag, 0))]

\* a - b
long_sub(a, b) == long_add(a, long_neg(b))

\* a < b
long_lt(a, b) ==
    IF a.neg # b.neg THEN a.neg
    ELSE IF a.neg THEN mag_lt(b.mag, a.mag)
    ELSE mag_lt(a.mag, b.mag)

\* a > b
long_gt(a, b) == long_lt(b, a)

\* the integer of the model a number that is not negative stands for, Huge
\* when it is Huge or more
clip(a) ==
    IF Len(a.mag) > 4 \/ (Len(a.mag) = 4 /\ a.mag[4] >= 128) THEN Huge
    ELSE LET digit(i) == IF i <= Len(a.mag) THEN a.mag[i] ELSE 0
         IN  digit(1) + 256 * digit(2) + 65536 * digit(3)
             + 16777216 * digit(4)

\* whether a number that is not negative fits the signed 64-bit integer
\* (ssize_t, off_t) a C function takes it as: it is below 2^63
fits_ssize_t(a) ==
    \/ Len(a.mag) < 8
    \/ Len(a.mag) = 8 /\ a.mag[8] < 128

\* whether a string of so many bytes (below 2^63) is more than a Python
\* string can hold: the bytes and the 37 of the string object's header and
\* end exceed 2^63-1, so it is from 2^63-37 on
string_too_large(a) ==
    /\ Len(a.mag) = 8 /\ a.mag[8] = 127
    /\ \A i \in 2..7 : a.mag[i] = 255
    /\ a.mag[1] >= 256 - 37

\* ------------------------------------------------------- struct, size_t
size_t_sizeof == 8

\* struct.pack('Q', v) of an integer of the model: 8 bytes, least
\* significant first (native order of the little-endian hosts the node runs
\* on)
RECURSIVE pack_le(_, _)
pack_le(v, n) ==
    IF n = 0 THEN <<>> ELSE <<v % 256>> \o pack_le(v \div 256, n - 1)

pack_be(v) ==
    LET le == pack_le(v, size_t_sizeof)
    IN  [i \in 1..size_t_sizeof |-> le[size_t_sizeof + 1 - i]]

pack(v) == pack_le(v, size_t_sizeof)

\* struct.pack('Q', value) of a Python integer: [exc, data]; struct.error
\* when the value is negative or does not fit 64 bits
struct_pack(value) ==
    IF value.neg \/ Len(value.mag) > size_t_sizeof
    THEN [exc |-> "struct.error"]
    ELSE [exc |-> "",
          data |-> [i \in 1..size_t_sizeof |->
                      IF i <= Len(value.mag) THEN value.mag[i] ELSE 0]]

\* the number 8 bytes stand for, least significant first (the bytes are
\* looked at once they are known: d is their value)
unpack_value(data) ==
    CHOOSE v \in {[neg |-> FALSE, mag |-> strip(d)] : d \in {data}} : TRUE

\* struct.unpack('Q', data)[0]: struct.error unless data has exactly 8 bytes
unpack_padded(data) ==
    IF Len(data) # size_t_sizeof THEN [exc |-> "", val |-> long(0)]
    ELSE [exc |-> "", val |-> unpack_value(data)]

unpack(data) ==
    IF Len(data) # size_t_sizeof
    THEN [exc |-> "struct.error"]
    ELSE [exc |-> "", val |-> unpack_value(data)]

\* ----------------------------------------------------------- file objects
\* A read request of this many bytes or more makes file.read allocate a
\* buffer the host may refuse (1 GiB).
BigRead == 1024 * 1024 * 1024

\* No offset of the medium is unreadable.
NoBad == 0 - 1

\* a + b of two stream positions; Huge when it is Huge or more
add(a, b) == IF a > Huge - b THEN Huge ELSE a + b

\* An open file object is [data, bad]: the bytes of the file and the offset
\* from which the medium fails to read (NoBad: none).  fo.read(n) at stream
\* position pos, n a Python integer that is not negative.  A request of no
\* bytes returns the empty string and does not touch the medium.  A request
\* of 2^63-37 bytes or more raises OverflowError (the argument does not fit
\* a C long, or the result string would be too large); one of BigRead bytes
\* or more raises MemoryError when the buffer cannot be had, which the host
\* decides (mem_fails).  A read that starts in the failing part of the medium raises
\* IOError, and goes on raising it on every retry; otherwise the read
\* returns the bytes up to the end of the readable part, at most n.
file_read_at(fo, pos, n, mem_fails) ==
    LET limit == IF fo.bad = NoBad THEN Len(fo.data)
                 ELSE Min(fo.bad, Len(fo.data))
        size == clip(n)
    IN  IF size = 0 THEN [exc |-> "", data |-> <<>>]
        ELSE IF ~fits_ssize_t(n) \/ string_too_large(n)
        THEN [exc |-> "OverflowError"]
        ELSE IF size >= BigRead /\ mem_fails THEN [exc |-> "MemoryError"]
        ELSE IF fo.bad # NoBad /\ pos >= fo.bad THEN [exc |-> "IOError"]
        ELSE [exc |-> "",
              data |-> IF pos >= limit THEN <<>>
                       ELSE IF size >= limit - pos
                            THEN SubSeq(fo.data, pos + 1, limit)
                            ELSE SubSeq(fo.data, pos + 1, pos + size)]

\* the same, of a position and a size that are worked out once
file_read(fo, pos, n, mem_fails) ==
    CHOOSE r \in {file_read_at(fo, p, m, mem_fails) : p \in {pos}, m \in {n}} :
        TRUE

\* The buffer of a file object opened for writing holds one block of the
\* file system.
BlockSize == 4096

\* fout.write of n bytes to a file object of which disk bytes have reached
\* the file and held bytes wait in the buffer: the bytes that have reached
\* the file afterwards.  What fits the buffer stays in it; otherwise the
\* buffer is filled and written, and the whole blocks of the rest follow it.
file_write(disk, held, n) ==
    IF held + n <= BlockSize THEN disk
    ELSE LET rest == n - (BlockSize - held)
         IN  disk + BlockSize + (rest - (rest % BlockSize))

\* ------------------------------------------------------------- check_file
\* errors += 1, up to the point where the model stops counting
count_error(errors) == IF errors < MaxErrors THEN errors + 1 ELSE errors

\* `except Exception`: the classes of the exceptions file.read and
\* struct.unpack raise all derive from Exception
except_IOError(exc) == exc = "IOError"

except_Exception(exc) ==
    exc \in {"IOError", "MemoryError", "OverflowError", "struct.error"}

\* key < min_key or key > max_key, key a decoded field, the bounds those
\* get_range returned
out_of_range_exclusive(key, min_key, max_key) ==
    ~long_gt(key, long(min_key)) \/ ~long_lt(key, long(max_key))

out_of_range(key, min_key, max_key) ==
    long_lt(key, long(min_key)) \/ long_gt(key, long(max_key))

\* The locals of check_file when the loop is entered.
\*   pos: position of the stream fo;  reads: the fields the latest iteration
\*   asked the stream for;  exc: the exception raised and not yet handled
\*   ("": none) and clause: the try block it was raised in;  done: the loop
\*   was left by break.
check_file_enter ==
    [pos |-> 0, key |-> long(0), records_read |-> 0, errors |-> 0,
     reads |-> <<>>, exc |-> "", clause |-> "", done |-> FALSE]

\* check_file, lines 154-160: the key just read (8 bytes, the stream is
\* behind them) is out of range
check_file_resync_aligned(cf, key) ==
    [cf EXCEPT !.key = key, !.errors = count_error(@),
               !.pos = @ + size_t_sizeof,
               !.reads = <<"key", "length">>]

\* the same, were the stream put back in front of the key
check_file_resync_unread(cf, key) ==
    [cf EXCEPT !.key = key, !.errors = count_error(@),
               !.pos = @ - size_t_sizeof]

check_file_resync(cf, key) ==
    [cf EXCEPT !.key = key, !.errors = count_error(@)]

\* One iteration of the while loop of check_file, from the top of the loop to
\* its break, to its end, to the `continue` of an out-of-range key, or to
\* the raise of an exception in one of the five try blocks.
check_file_iter(fo, cf, min_key, max_key, mem_fails) ==
    LET c0 == [cf EXCEPT !.reads = <<"key">>]
        kr == file_read(fo, cf.pos, long(size_t_sizeof), mem_fails)
    IN  IF kr.exc # ""
        THEN [c0 EXCEPT !.exc = kr.exc, !.clause = "reading key"]
        ELSE IF kr.data = <<>> THEN [c0 EXCEPT !.done = TRUE]
        ELSE
        LET c1 == [c0 EXCEPT !.pos = @ + Len(kr.data)]
            ku == unpack(kr.data)
        IN  IF ku.exc # ""
            THEN [c1 EXCEPT !.exc = ku.exc, !.clause = "unpacking key"]
            ELSE IF out_of_range(ku.val, min_key, max_key)
            THEN check_file_resync(c1, ku.val)
            ELSE
            LET c2 == [c1 EXCEPT !.key = ku.val,
                                 !.reads = <<"key", "length">>]
                lr == file_read(fo, c2.pos, long(size_t_sizeof), mem_fails)
            IN  IF lr.exc # ""
                THEN [c2 EXCEPT !.exc = lr.exc,
                                !.clause = "reading value length"]
                ELSE
                LET c3 == [c2 EXCEPT !.pos = @ + Len(lr.data)]
                    lu == unpack(lr.data)
                IN  IF lu.exc # ""
                    THEN [c3 EXCEPT !.exc = lu.exc,
                                    !.clause = "unpacking value length"]
                    ELSE
                    LET c4 == [c3 EXCEPT
                                 !.reads = <<"key", "length", "value">>]
                        vr == file_read(fo, c4.pos, lu.val, mem_fails)
                    IN  IF vr.exc # ""
                        THEN [c4 EXCEPT !.exc = vr.exc,
                                        !.clause = "seeking the length"]
                        ELSE [c4 EXCEPT !.pos = @ + Len(vr.data),
                                        !.records_read = @ + 1]

\* Any of the five except clauses of check_file: warn, errors += 1, continue.
check_file_except(cf) ==
    [cf EXCEPT !.errors = count_error(@), !.exc = "", !.clause = ""]

\* ------------------------------------------------------------ repair_file
\* The locals of repair_file when the loop is entered.  out: the bytes
\* written to fout so far;  written: the (key_bytes, length_bytes,
\* value_bytes) of the records written so far;  reads: the fields the latest
\* iteration asked the stream for;  raised: the exception that left
\* repair_file ("": none);  done: the loop was left by break.
repair_file_enter ==
    [pos |-> 0, records_written |-> 0, out |-> <<>>, written |-> <<>>,
     reads |-> <<>>, raised |-> "", done |-> FALSE]

\* repair_file, lines 208-209: `except Exception as e: continue`
repair_file_except(rf, exc) ==
    IF except_Exception(exc) THEN rf ELSE [rf EXCEPT !.raised = exc]

\* repair_file, lines 210-213
repair_file_write_unframed(rf, key_bytes, length_bytes, value_bytes) ==
    [rf EXCEPT !.out = @ \o key_bytes \o value_bytes,
               !.written = Append(@, <<key_bytes, length_bytes, value_bytes>>),
               !.records_written = @ + 1]

repair_file_write(rf, key_bytes, length_bytes, value_bytes) ==
    [rf EXCEPT !.out = @ \o key_bytes \o length_bytes \o value_bytes,
               !.written = Append(@, <<key_bytes, length_bytes, value_bytes>>),
               !.records_written = @ + 1]

\* One iteration of the while loop of repair_file.
repair_file_iter(fin, rf, min_key, max_key, mem_fails) ==
    LET r0 == [rf EXCEPT !.reads = <<"key">>]
        kr == file_read(fin, rf.pos, long(size_t_sizeof), mem_fails)
    IN  IF kr.exc # "" THEN repair_file_except(r0, kr.exc)
        ELSE IF kr.data = <<>> THEN [r0 EXCEPT !.done = TRUE]
        ELSE
        LET r1 == [r0 EXCEPT !.pos = @ + Len(kr.data)]
            ku == unpack(kr.data)
        IN  IF ku.exc # "" THEN repair_file_except(r1, ku.exc)
            ELSE IF out_of_range(ku.val, min_key, max_key) THEN r1
            ELSE
            LET r2 == [r1 EXCEPT !.reads = <<"key", "length">>]
                lr == file_read(fin, r1.pos, long(size_t_sizeof), mem_fails)
            IN  IF lr.exc # "" THEN repair_file_except(r2, lr.exc)
                ELSE
                LET r3 == [r2 EXCEPT !.pos = @ + Len(lr.data)]
                    lu == unpack(lr.data)
                IN  IF lu.exc # "" THEN repair_file_except(r3, lu.exc)
                    ELSE
                    LET r4 == [r3 EXCEPT
                                 !.reads = <<"key", "length", "value">>]
                        vr == file_read(fin, r3.pos, lu.val, mem_fails)
                    IN  IF vr.exc # "" THEN repair_file_except(r4, vr.exc)
                        ELSE repair_file_write(
                                 [r4 EXCEPT !.pos = @ + Len(vr.data)],
                                 kr.data, lr.data, vr.data)

\* repair_file, lines 210-212, of the iteration that led from rf to next:
\* the bytes of fout that have reached the file, disk of them before
repair_file_flushed(disk, rf, next) ==
    IF next.records_written = rf.records_written THEN disk
    ELSE LET rec == next.written[Len(next.written)]
             at == Len(rf.out)
             d1 == file_write(disk, at - disk, Len(rec[1]))
             d2 == file_write(d1, at + Len(rec[1]) - d1, Len(rec[2]))
         IN  file_write(d2, at + Len(rec[1]) + Len(rec[2]) - d2, Len(rec[3]))

\* The host's answer to the value read of the iteration that starts at
\* stream position pos: the request, when it is one of BigRead bytes or
\* more, is refused when the position of the read is in refused.  A scan
\* makes a value read at a position once at most.
refuses(refused, pos) == (pos + 2 * size_t_sizeof) \in refused

\* check_file(fo, min_key, max_key) as a whole, from the locals cf on, on a
\* host that refuses a buffer of BigRead bytes or more to the reads at the
\* stream positions refused and grants the others: (records_read, errors)
RECURSIVE check_file_from(_, _, _, _, _)
check_file_from(fo, cf, min_key, max_key, refused) ==
    IF cf.done THEN <<cf.records_read, cf.errors>>
    ELSE IF cf.exc # ""
    THEN check_file_from(fo, check_file_except(cf), min_key, max_key,
                         refused)
    ELSE check_file_from(fo, check_file_iter(fo, cf, min_key, max_key,
                                             refuses(refused, cf.pos)),
                         min_key, max_key, refused)

check_file(fo, min_key, max_key, refused) ==
    check_file_from(fo, check_file_enter, min_key, max_key, refused)

\* repair_file(fin, fout, min_key, max_key) as a whole on such a host:
\* records_written
RECURSIVE repair_file_from(_, _, _, _, _)
repair_file_from(fin, rf, min_key, max_key, refused) ==
    IF rf.done \/ rf.raised # "" THEN rf.records_written
    ELSE repair_file_from(fin, repair_file_iter(fin, rf, min_key, max_key,
                                                refuses(refused, rf.pos)),
                          min_key, max_key, refused)

repair_file(fin, min_key, max_key, refused) ==
    repair_file_from(fin, repair_file_enter, min_key, max_key, refused)

\* process_file, line 118: `if not errors or not self.args.repair: return`
no_repair_and(errors, repair) == errors = 0 /\ ~repair

no_repair(errors, repair) == errors = 0 \/ ~repair

\* ------------------------------------------------------------------ paths
\* the channel directory, its one bucket directory and the names in it
CHAN == <<"c", "h", "a", "n">>
D52 == <<"0", "0", "0", "0", "0", "0", "0", "0", "5", "2">>
N120 == <<"1", "2", "0">>
N125 == <<"1", "2", "5">>
GZ == <<".", "g", "z">>
REPAIRING == <<".", "r", "e", "p", "a", "i", "r", "i", "n", "g">>
BROKEN == <<".", "b", "r", "o", "k", "e", "n">>
TMP == <<"t", "m", "p">>
N0x1 == <<"0", "x", "1">>
SIZEINFO == <<"s", "i", "z", "e", "i", "n", "f", "o">>

\* the two block files of the channel
F1 == <<CHAN, D52, N125>>
F2 == <<CHAN, D52, N120>>

\* os.path.join(dirname, fname)
join(dirname, fname) == Append(dirname, fname)

\* fname + suffix, on the last component of a path
plus(path, suffix) ==
    [path EXCEPT ![Len(path)] = @ \o suffix]

\* fname.endswith(suffix)
endswith(fname, suffix) ==
    /\ Len(fname) >= Len(suffix)
    /\ SubSeq(fname, Len(fname) - Len(suffix) + 1, Len(fname)) = suffix

\* os.path.isdir(path): some regular file lies below path
isdir(files, path) ==
    \E f \in DOMAIN files :
        Len(f) > Len(path) /\ SubSeq(f, 1, Len(path)) = path

\* the names of the entries of the directory path
names_in(files, path) ==
    {f[Len(path) + 1] : f \in {g \in DOMAIN files :
                                 /\ Len(g) > Len(path)
                                 /\ SubSeq(g, 1, Len(path)) = path}}

\* the lists that hold each element of the set S once
RECURSIVE orders(_)
orders(S) ==
    IF S = {} THEN {<<>>}
    ELSE UNION {{<<x>> \o o : o \in orders(S \ {x})} : x \in S}

\* os.listdir(path): the lists it may return.  The order of the names is
\* the file system's choice, any order.
listdir(files, path) == orders(names_in(files, path))

\* the directories of a file system
directories(files) ==
    UNION {{SubSeq(f, 1, n) : n \in 1..(Len(f) - 1)} : f \in DOMAIN files}

\* what os.listdir may return for each of the directories dirs during one
\* run: the functions from each directory to one of its lists
RECURSIVE listings(_, _)
listings(files, dirs) ==
    IF dirs = {} THEN {<<>>}
    ELSE LET d == CHOOSE d \in dirs : TRUE
         IN  {(d :> o) @@ l : o \in listdir(files, d),
                              l \in listings(files, dirs \ {d})}

\* os.rename(src, dst)
rename_drop(files, src, dst) == [f \in DOMAIN files \ {src} |-> files[f]]

rename(files, src, dst) ==
    [f \in (DOMAIN files \ {src}) \cup {dst} |->
        IF f = dst THEN files[src] ELSE files[f]]

\* file(path, 'w') and the bytes that reach it: the file is created or
\* replaced
write_file(files, path, data) ==
    [f \in DOMAIN files \cup {path} |-> IF f = path THEN data ELSE files[f]]

\* -------------------------------------------------------------- get_range
\* the value of a hexadecimal digit of either case; -1 for another character
hex_digit(c) ==
    CASE c = "0" -> 0 [] c = "1" -> 1 [] c = "2" -> 2 [] c = "3" -> 3
      [] c = "4" -> 4 [] c = "5" -> 5 [] c = "6" -> 6 [] c = "7" -> 7
      [] c = "8" -> 8 [] c = "9" -> 9
      [] c \in {"a", "A"} -> 10 [] c \in {"b", "B"} -> 11
      [] c \in {"c", "C"} -> 12 [] c \in {"d", "D"} -> 13
      [] c \in {"e", "E"} -> 14 [] c \in {"f", "F"} -> 15
      [] OTHER -> -1

RECURSIVE hex_value(_, _)
hex_value(str, acc) ==
    IF str = <<>> THEN acc
    ELSE hex_value(Tail(str), acc * 16 + hex_digit(Head(str)))

\* int(str, 16) of a string of letters, digits and dots: ValueError unless
\* it is a non-empty string of hexadecimal digits, behind "0x" or not
int16(str) ==
    LET digits == IF Len(str) >= 2 /\ str[1] = "0" /\ str[2] \in {"x", "X"}
                  THEN SubSeq(str, 3, Len(str))
                  ELSE str
    IN  IF digits = <<>> \/ \E i \in 1..Len(digits) : hex_digit(digits[i]) < 0
        THEN [exc |-> "ValueError"]
        ELSE [exc |-> "", val |-> hex_value(digits, 0)]

\* --block-filter: none, or an operator and the literal behind it
NoFilter == [op |-> "", literal |-> 0]

Filter(op, literal) == [op |-> op, literal |-> literal]

\* eval('ts ' + block_filter)
eval_filter_any(ts, block_filter) == TRUE

eval_filter(ts, block_filter) ==
    CASE block_filter.op = "<" -> ts < block_filter.literal
      [] block_filter.op = "<=" -> ts <= block_filter.literal
      [] block_filter.op = ">" -> ts > block_filter.literal
      [] block_filter.op = ">=" -> ts >= block_filter.literal
      [] block_filter.op = "==" -> ts = block_filter.literal
      [] block_filter.op = "!=" -> ts # block_filter.literal

\* `self.args.block_filter and not eval('ts ' + self.args.block_filter)`
filtered_out(ts, block_filter) ==
    block_filter # NoFilter /\ ~eval_filter(ts, block_filter)

\* int('0x' + os.path.basename(dirname) + fname, 16)
timestamp(dirname, fname) ==
    int16(<<"0", "x">> \o dirname[Len(dirname)] \o fname)

\* check_hexa_fname: a name of another length than expected only warns
check_hexa_fname(fname, length) == int16(fname).exc = ""

None == <<>>

\* get_range(path): the exception that leaves it, if any: the ValueError of
\* int(dirname+fname+'000', 16), line 228, which no handler catches.  Two
\* names that are hexadecimal numbers each need not be one together: the
\* file name may begin with 0x.
get_range_exc(path) ==
    IF Len(path) < 2 THEN ""
    ELSE LET dirname == path[Len(path) - 1]
             fname == path[Len(path)]
             ok == check_hexa_fname(dirname, 10) /\ check_hexa_fname(fname, 3)
         IN  IF ~ok THEN ""
             ELSE int16(dirname \o fname \o <<"0", "0", "0">>).exc

\* get_range(path) where it returns: None, or <<min, min + 0xfff>>
get_range(path) ==
    IF Len(path) < 2 THEN None
    ELSE LET dirname == path[Len(path) - 1]
             fname == path[Len(path)]
             ok == check_hexa_fname(dirname, 10) /\ check_hexa_fname(fname, 3)
         IN  IF ~ok THEN None
             ELSE LET min == int16(dirname \o fname \o <<"0", "0", "0">>).val
                  IN  <<min, min + 4095>>

\* --------------------------------------------------------------- SizeInfo
\* SizeInfo()
SizeInfo == [size |-> long(0), records |-> long(0)]

\* SizeInfo.__eq__
SizeInfo_eq_size(self, other) == self.size = other.size

SizeInfo_eq(self, other) ==
    self.size = other.size /\ self.records = other.records

\* SizeInfo.__ne__
SizeInfo_ne(self, other) == ~SizeInfo_eq(self, other)

\* SizeInfo.__add__
SizeInfo_add(self, other) ==
    [size |-> long_add(self.size, other.size),
     records |-> long_add(self.records, other.records)]

\* SizeInfo.__sub__
SizeInfo_sub(self, other) ==
    [size |-> long_sub(self.size, other.size),
     records |-> long_sub(self.records, other.records)]

\* file(path) of the file system files, on the medium bad_medium
open_in(files, path, bad_medium) ==
    [data |-> files[path],
     bad |-> IF path = bad_medium.path THEN bad_medium.bad ELSE NoBad]

\* ----------------------------------------------------------------- codec
\* Reader.read(path): [exc, info]; an exception leaves it as it is raised
Reader_read(files, path, bad_medium) ==
    LET fo == open_in(files, path, bad_medium)
        r1 == file_read(fo, 0, long(size_t_sizeof), FALSE)
    IN  IF r1.exc # "" THEN [exc |-> r1.exc, info |-> SizeInfo]
        ELSE
        LET records == unpack(r1.data)
        IN  IF records.exc # "" THEN [exc |-> records.exc, info |-> SizeInfo]
            ELSE
            LET r2 == file_read(fo, Len(r1.data), long(size_t_sizeof), FALSE)
            IN  IF r2.exc # "" THEN [exc |-> r2.exc, info |-> SizeInfo]
                ELSE
                LET size == unpack(r2.data)
                IN  IF size.exc # ""
                    THEN [exc |-> size.exc, info |-> SizeInfo]
                    ELSE [exc |-> "",
                          info |-> [size |-> size.val,
                                    records |-> records.val]]

\* Writer.write(path, info): [exc, files], the exception that left it ("":
\* none) and the file system behind it.  The file is created or emptied when
\* it is opened; what was written before struct.pack raised reaches it when
\* the with block is left.
Writer_write_size_first(files, path, info) ==
    LET first == struct_pack(info.size)
        second == struct_pack(info.records)
    IN  IF first.exc # ""
        THEN [exc |-> first.exc, files |-> write_file(files, path, <<>>)]
        ELSE IF second.exc # ""
        THEN [exc |-> second.exc,
              files |-> write_file(files, path, first.data)]
        ELSE [exc |-> "",
              files |-> write_file(files, path, first.data \o second.data)]

Writer_write(files, path, info) ==
    LET first == struct_pack(info.records)
        second == struct_pack(info.size)
    IN  IF first.exc # ""
        THEN [exc |-> first.exc, files |-> write_file(files, path, <<>>)]
        ELSE IF second.exc # ""
        THEN [exc |-> second.exc,
              files |-> write_file(files, path, first.data)]
        ELSE [exc |-> "",
              files |-> write_file(files, path, first.data \o second.data)]

\* --add-from and --write when they are not given
NoPath == <<>>

\* main, lines 35-37: `if args.add_from: info += reader.read(args.add_from)`:
\* [exc, info].  file() of a file that does not exist raises IOError.
main_add_from(files, info, add_from, bad_medium) ==
    IF add_from = NoPath THEN [exc |-> "", info |-> info]
    ELSE IF add_from \notin DOMAIN files
    THEN [exc |-> "IOError", info |-> info]
    ELSE LET got == Reader_read(files, add_from, bad_medium)
         IN  IF got.exc # "" THEN [exc |-> got.exc, info |-> info]
             ELSE [exc |-> "", info |-> SizeInfo_add(info, got.info)]

\* main, lines 40-42: `if args.write: writer.write(args.write, info)`:
\* [exc, files]
main_write(files, info, write) ==
    IF write = NoPath THEN [exc |-> "", files |-> files]
    ELSE Writer_write(files, write, info)

\* ------------------------------------------------------------- Generator
\* Generator.process_file, lines 308-309
Generator_count_last(info, length) ==
    [size |-> length, records |-> long_add(info.records, long(1))]

Generator_count(info, length) ==
    [size |-> long_add(info.size, length),
     records |-> long_add(info.records, long(1))]

\* what fo.seek(length, 1) does with a length of 2^31-1 or more and below
\* 2^63: it moves the position ("": also beyond the end of the file) or
\* raises IOError (an offset the file system refuses) or OverflowError (an
\* offset the build has no room for)
SeekOutcomes == {"", "OverflowError", "IOError"}

\* Generator.process_file(fo) from stream position pos on: [exc, info], the
\* exception that left it ("": none) and self.info when it did.  fo.seek
\* raises OverflowError for a length of 2^63 or more; seek_exc is the outcome
\* of the seek of this file by 2^31-1 or more (there is at most one: the
\* position behind it is beyond the end of the file).
RECURSIVE Generator_process_file(_, _, _, _)
Generator_process_file(fo, pos, info, seek_exc) ==
    LET kr == file_read(fo, pos, long(size_t_sizeof), FALSE)
    IN  IF kr.exc # "" THEN [exc |-> kr.exc, info |-> info]
        ELSE IF kr.data = <<>> THEN [exc |-> "", info |-> info]
        ELSE IF unpack(kr.data).exc # ""
        THEN [exc |-> unpack(kr.data).exc, info |-> info]
        ELSE
        LET lr == file_read(fo, pos + size_t_sizeof, long(size_t_sizeof),
                            FALSE)
        IN  IF lr.exc # "" THEN [exc |-> lr.exc, info |-> info]
            ELSE IF unpack(lr.data).exc # ""
            THEN [exc |-> unpack(lr.data).exc, info |-> info]
            ELSE
            LET length == unpack(lr.data).val
            IN  IF ~fits_ssize_t(length)
                THEN [exc |-> "OverflowError", info |-> info]
                ELSE IF clip(length) >= Huge /\ seek_exc # ""
                THEN [exc |-> seek_exc, info |-> info]
                ELSE Generator_process_file(
                         fo, add(pos + 2 * size_t_sizeof, clip(length)),
                         Generator_count(info, length), seek_exc)

\* whether Generator.process_file of a file of these bytes seeks by 2^31-1
\* or more and less than 2^63
far_seek(data) ==
    Generator_process_file([data |-> data, bad |-> NoBad], 0, SizeInfo,
                           "IOError").exc = "IOError"

\* the outcomes of the far seeks of one run: a function from the files that
\* make one to the outcome of theirs
seek_outcomes(files) ==
    [{f \in DOMAIN files : far_seek(files[f])} -> SeekOutcomes]

\* the outcome of the far seek of a file
seek_of(seek_exc, path) ==
    IF path \in DOMAIN seek_exc THEN seek_exc[path] ELSE ""

\* Generator.process_dir(dirname), the names still to come of its for loop.
\* The handler of the ValueError of a name that is not hexadecimal calls
\* sys.stderr.write with two arguments, which raises TypeError.
RECURSIVE Generator_process_dir(_, _, _, _, _, _, _)
Generator_process_dir(files, dirname, fnames, info, block_filter, bad_medium, seek_exc) ==
    IF fnames = <<>> THEN [exc |-> "", info |-> info]
    ELSE
    LET fn == Head(fnames)
        ts == timestamp(dirname, fn)
        done == IF endswith(fn, GZ) THEN [exc |-> "", info |-> info]
                ELSE IF ts.exc # "" THEN [exc |-> "TypeError", info |-> info]
                ELSE IF filtered_out(ts.val, block_filter)
                THEN [exc |-> "", info |-> info]
                ELSE Generator_process_file(
                         open_in(files, join(dirname, fn), bad_medium), 0,
                         info, seek_of(seek_exc, join(dirname, fn)))
    IN  IF done.exc # "" THEN done
        ELSE Generator_process_dir(files, dirname, Tail(fnames), done.info,
                                   block_filter, bad_medium, seek_exc)

\* Generator.generate(path), the names still to come of its for loop; lists
\* is what os.listdir returns for each directory
RECURSIVE Generator_generate(_, _, _, _, _, _, _, _)
Generator_generate(files, path, fnames, info, block_filter, lists, bad_medium, seek_exc) ==
    IF fnames = <<>> THEN [exc |-> "", info |-> info]
    ELSE
    LET full_fname == join(path, Head(fnames))
        done == IF ~isdir(files, full_fname) THEN [exc |-> "", info |-> info]
                ELSE Generator_process_dir(
                         files, full_fname, lists[full_fname], info,
                         block_filter, bad_medium, seek_exc)
    IN  IF done.exc # "" THEN done
        ELSE Generator_generate(files, path, Tail(fnames), done.info,
                                block_filter, lists, bad_medium, seek_exc)

\* Generator(args).generate(path) of one run: what it may give, with the
\* lists os.listdir may return and the outcomes the far seeks may have
Generator_runs(files, path, block_filter, bad_medium) ==
    {Generator_generate(files, path, lists[path], SizeInfo, block_filter,
                        lists, bad_medium, seek_exc) :
        lists \in listings(files, directories(files)),
        seek_exc \in seek_outcomes(files)}

\* ------------------------------------------------------------ SizeChecker
\* nothing written to stderr
NoReport == [expected |-> SizeInfo, current |-> SizeInfo, diff |-> SizeInfo, said |-> FALSE]

\* SizeChecker.check(path): [exc, report], the exception that left it ("":
\* none, "SystemExit": sys.exit(1)) and what it wrote to stderr.  file() of
\* a sidecar that does not exist raises IOError.
SizeChecker_check(files, path, block_filter, lists, bad_medium, seek_exc) ==
    LET expected == Generator_generate(files, path, lists[path], SizeInfo,
                                       block_filter, lists, bad_medium,
                                       seek_exc)
        sidecar == join(path, SIZEINFO)
    IN  IF expected.exc # "" THEN [exc |-> expected.exc, report |-> NoReport]
        ELSE IF sidecar \notin DOMAIN files
        THEN [exc |-> "IOError", report |-> NoReport]
        ELSE
        LET real == Reader_read(files, sidecar, bad_medium)
        IN  IF real.exc # "" THEN [exc |-> real.exc, report |-> NoReport]
            ELSE IF SizeInfo_ne(real.info, expected.info)
            THEN [exc |-> "SystemExit",
                  report |-> [expected |-> expected.info,
                              current |-> real.info,
                              diff |-> SizeInfo_sub(expected.info, real.info),
                              said |-> TRUE]]
            ELSE [exc |-> "", report |-> NoReport]

\* ------------------------------------------------- generated block files
\* A generated block file starts from a sequence of well-formed records of
\* the block's key range and is then damaged in at most one place.
Record(key, value) == [key |-> key, value |-> value]

Records(range) ==
    {Record(k, v) : k \in {range[1], range[2]},
                    v \in {<<>>, <<7>>, pack(range[1]) \o pack(0)}}

RecordSeqs(range, n) == UNION {[1..m -> Records(range)] : m \in 0..n}

\* the three byte strings of a record on disk
triple(rec) == <<pack(rec.key), pack(Len(rec.value)), rec.value>>

RECURSIVE encode(_)
encode(recs) ==
    IF recs = <<>> THEN <<>>
    ELSE LET t == triple(Head(recs))
         IN  t[1] \o t[2] \o t[3] \o encode(Tail(recs))

\* offset of record idx in the encoding of recs
offset(recs, idx) == Len(encode(SubSeq(recs, 1, idx - 1)))

\* the 8 bytes of 2^64 - 1, of 2^63 - 1, of 2^40 and of 2^40 + 1
AllOnes == [i \in 1..size_t_sizeof |-> 255]

MaxLong == [i \in 1..size_t_sizeof |-> IF i = size_t_sizeof THEN 127 ELSE 255]

TwoTo40 == [i \in 1..size_t_sizeof |-> IF i = 6 THEN 1 ELSE 0]

TwoTo40Plus1 == [i \in 1..size_t_sizeof |-> IF i \in {1, 6} THEN 1 ELSE 0]

NoDamage == [kind |-> "none", idx |-> 0, arg |-> 0]

\* "key": the key of record idx is replaced by arg, a key out of range;
\* "length": the length of record idx is replaced by 2^64 - 1;
\* "far": the length of record idx is replaced by 2^40;
\* "long": the length of the one record of a file is replaced by 2^63 - 1;
\* "both": of two records with the first without a value, the key of the
\* first is replaced by one below the range and the length of the second by
\* 2^40;
\* "trunc": the last arg bytes are cut off.
Damages(range, recs) ==
    {NoDamage}
    \cup {[kind |-> "key", idx |-> i, arg |-> k] :
             i \in 1..Len(recs), k \in {range[1] - 1, range[2] + 1}}
    \cup {[kind |-> "length", idx |-> i, arg |-> 0] : i \in 1..Len(recs)}
    \cup {[kind |-> "far", idx |-> i, arg |-> 0] : i \in 1..Len(recs)}
    \cup (IF Len(recs) = 1 THEN {[kind |-> "long", idx |-> 1, arg |-> 0]}
          ELSE {})
    \cup (IF Len(recs) = 2 /\ recs[1].value = <<>>
          THEN {[kind |-> "both", idx |-> 1, arg |-> range[1] - 1]}
          ELSE {})
    \cup {[kind |-> "trunc", idx |-> 0, arg |-> n] :
             n \in 1..Min(MaxTrunc, Len(encode(recs)))}

overwrite(data, at, word) ==
    [i \in 1..Len(data) |->
        IF i > at /\ i <= at + Len(word) THEN word[i - at] ELSE data[i]]

damaged(recs, damage) ==
    LET data == encode(recs)
    IN  CASE damage.kind = "none" -> data
          [] damage.kind = "key" ->
                overwrite(data, offset(recs, damage.idx), pack(damage.arg))
          [] damage.kind = "length" ->
                overwrite(data, offset(recs, damage.idx) + size_t_sizeof,
                          AllOnes)
          [] damage.kind = "far" ->
                overwrite(data, offset(recs, damage.idx) + size_t_sizeof,
                          TwoTo40)
          [] damage.kind = "both" ->
                overwrite(overwrite(data, 0, pack(damage.arg)),
                          offset(recs, 2) + size_t_sizeof, TwoTo40)
          [] damage.kind = "long" ->
                overwrite(data, offset(recs, damage.idx) + size_t_sizeof,
                          MaxLong)
          [] damage.kind = "trunc" ->
                SubSeq(data, 1, Len(data) - damage.arg)

\* ------------------------------------------------------------------ state
VARIABLES
    fs,         \* the file system: path of a regular file -> its bytes
    media,      \* [path, bad]: the one file of a failing medium, if any
    args,       \* the command line: [repair, path, block_filter, add_from,
                \* write]
    pc,         \* where the program is
    exit_code,  \* the exit code once pc = "exit"
    dirs,       \* check: the names of the for loop still to come, a set
    ck,         \* check: files, ferrors, records, errors
    dirname,    \* process_dir: its argument
    names,      \* process_dir: the names of its for loop still to come
    pd,         \* process_dir: files, ferrors, records, errors
    fname,      \* process_file: its argument
    range,      \* process_file: <<min_key, max_key>>
    fin,        \* process_file: the open input file
    cf,         \* the locals of check_file
    rf,         \* the locals of repair_file
    result,     \* what the latest process_file returned
    pre,        \* the file system when the latest process_file was entered
    orig,       \* the records F1 was generated from
    damage,     \* the damage done to them
    info,       \* main: the size info read, generated or to write
    given,      \* the size info handed to the latest Writer.write
    gen_out,    \* block filter -> what the run of --generate with it gave
    report      \* what SizeChecker.check wrote to stderr

vars == <<fs, media, args, pc, exit_code, dirs, ck, dirname, names, pd,
          fname, range, fin, cf, rf, result, pre, orig, damage, info, given,
          gen_out, report>>

\* what a run of --consistency-check or --repair leaves alone
env == <<media, args, orig, damage, info, given, gen_out, report>>

\* the locals of check, process_dir, process_file, check_file, repair_file
locals == <<dirs, ck, dirname, names, pd, fname, range, fin, cf, rf, result,
            pre>>

NoRuns == [f \in {} |-> SizeInfo]

R1 == get_range(F1)
R2 == get_range(F2)

\* what lies in a channel beside the two block files: its sidecar file and
\* an archived block file
SidecarAndArchive ==
    (<<CHAN, SIZEINFO>> :> (pack(0) \o pack(0)))
    @@ (<<CHAN, D52, N125 \o GZ>> :> <<31, 139>>)

\* the same and a file that is no block file
OtherFiles == SidecarAndArchive @@ (<<CHAN, D52, TMP>> :> <<>>)

\* offsets a medium may fail from
BadOffsets == {0, size_t_sizeof, 2 * size_t_sizeof}

Zero == [files |-> 0, ferrors |-> 0, records |-> 0, errors |-> 0]

Idle ==
    /\ exit_code = 0
    /\ dirs = {} /\ ck = Zero
    /\ dirname = <<>> /\ names = {} /\ pd = Zero
    /\ fname = <<>> /\ range = None
    /\ fin = [data |-> <<>>, bad |-> NoBad]
    /\ cf = check_file_enter /\ rf = repair_file_enter
    /\ result = <<0, 0>>
    /\ pre = fs
    /\ given = SizeInfo /\ gen_out = NoRuns /\ report = NoReport

\* -c FILE or -R FILE: one block file, generated from up to n records
InitFileOf(n) ==
    /\ \E recs \in RecordSeqs(R1, n) :
       \E d \in Damages(R1, recs) :
          /\ orig = recs /\ damage = d
          /\ fs = (F1 :> damaged(recs, d)) @@ (F2 :> <<>>) @@ OtherFiles
          /\ \E bad \in {NoBad} \cup
                        (IF d = NoDamage THEN BadOffsets ELSE {}) :
                media = [path |-> F1, bad |-> bad]
    /\ \E repair \in BOOLEAN :
          args = [repair |-> repair, path |-> F1, block_filter |-> NoFilter,
                  add_from |-> NoPath, write |-> NoPath]
    /\ Idle
    /\ pc = "check" /\ info = SizeInfo

\* a record without a value and a record whose value fills one buffer of
\* the file object repair_file writes to
BlockRecs ==
    <<Record(R1[1], <<>>), Record(R1[1] + 1, [i \in 1..BlockSize |-> 0])>>

\* -c FILE or -R FILE: the block file of BlockRecs with the key of its
\* first record out of range
InitBlock ==
    /\ \E d \in {d \in Damages(R1, BlockRecs) : d.kind = "key" /\ d.idx = 1} :
          /\ orig = BlockRecs /\ damage = d
          /\ fs = (F1 :> damaged(BlockRecs, d)) @@ (F2 :> <<>>) @@ OtherFiles
    /\ media = [path |-> F1, bad |-> NoBad]
    /\ \E repair \in BOOLEAN :
          args = [repair |-> repair, path |-> F1, block_filter |-> NoFilter,
                  add_from |-> NoPath, write |-> NoPath]
    /\ Idle
    /\ pc = "check" /\ info = SizeInfo

\* a file whose name is a hexadecimal number behind 0x
Prefixed == (<<CHAN, D52, N0x1>> :> <<>>)

\* -c FILE or -R FILE: a file that is no block file
InitNoRange ==
    /\ orig = <<>> /\ damage = NoDamage
    /\ fs = (F1 :> <<>>) @@ (F2 :> <<>>) @@ OtherFiles @@ Prefixed
    /\ media = [path |-> F1, bad |-> NoBad]
    /\ \E repair \in BOOLEAN, name \in {TMP, N0x1} :
          args = [repair |-> repair, path |-> <<CHAN, D52, name>>,
                  block_filter |-> NoFilter,
                  add_from |-> NoPath, write |-> NoPath]
    /\ Idle
    /\ pc = "check" /\ info = SizeInfo

\* -c CHANNEL or -R CHANNEL, F1 generated from up to n records, with one of
\* the block filters
InitChannelWith(n, filters) ==
    /\ \E recs \in RecordSeqs(R1, n) :
       \E d \in Damages(R1, recs) :
       \E recs2 \in {<<>>, <<Record(R2[1], <<7>>)>>} :
       \E d2 \in {d2 \in Damages(R2, recs2) :
                    d2.kind = "none" \/ (d2.kind = "key" /\ d2.arg > R2[2])} :
       \E more \in {<<>>} \cup (IF recs = <<>> THEN {Prefixed} ELSE {}) :
          /\ orig = recs /\ damage = d
          /\ fs = (F1 :> damaged(recs, d)) @@ (F2 :> damaged(recs2, d2))
                  @@ OtherFiles @@ more
    /\ media = [path |-> F1, bad |-> NoBad]
    /\ \E repair \in BOOLEAN, block_filter \in filters :
          args = [repair |-> repair, path |-> <<CHAN>>,
                  block_filter |-> block_filter,
                  add_from |-> NoPath, write |-> NoPath]
    /\ Idle
    /\ pc = "check" /\ info = SizeInfo

\* the same without a block filter or with "> 0x52123"
InitChannelOf(n) == InitChannelWith(n, {NoFilter, Filter(">", 336163)})

Init == InitFileOf(MaxRecs) \/ InitNoRange \/ InitChannelOf(1) \/ InitBlock

\* the same with shorter block files
InitShort == InitFileOf(1) \/ InitNoRange \/ InitChannelOf(0)

\* ---------------------------------------------------------------- actions
\* file(path): open for reading
open(path) ==
    [data |-> fs[path],
     bad |-> IF path = media.path THEN media.bad ELSE NoBad]

\* process_file is entered: the file is opened and check_file starts
EnterProcessFile(path, rng) ==
    /\ fname' = path
    /\ range' = rng
    /\ fin' = open(path)
    /\ cf' = check_file_enter
    /\ pre' = fs
    /\ pc' = "check_file"

\* process_file returns (r, e) to check (a single file) or to process_dir
ReturnProcessFile(r, e) ==
    /\ result' = <<r, e>>
    /\ IF fname = args.path
       THEN /\ pc' = "exit"
            /\ exit_code' = 0
            /\ pd' = pd
       ELSE /\ pc' = "process_dir"
            /\ exit_code' = exit_code
            /\ pd' = [files |-> pd.files + 1,
                      ferrors |-> pd.ferrors + (IF e > 0 THEN 1 ELSE 0),
                      records |-> pd.records + r,
                      errors |-> pd.errors + e]

\* check(path) of a path that is no directory and has no key range
CheckExit3 ==
    /\ pc = "check"
    /\ ~isdir(fs, args.path)
    /\ get_range_exc(args.path) = ""
    /\ get_range(args.path) = None
    /\ pc' = "exit"
    /\ exit_code' = 3
    /\ UNCHANGED <<fs, env, dirs, ck, dirname, names, pd, fname, range, fin,
                   cf, rf, result, pre>>

\* check(path) of a path that is no directory: get_range raises
CheckRaise ==
    /\ pc = "check"
    /\ ~isdir(fs, args.path)
    /\ get_range_exc(args.path) # ""
    /\ pc' = "raised"
    /\ exit_code' = 1
    /\ UNCHANGED <<fs, env, dirs, ck, dirname, names, pd, fname, range, fin,
                   cf, rf, result, pre>>

\* check(path) of a single block file
CheckFile ==
    /\ pc = "check"
    /\ ~isdir(fs, args.path)
    /\ get_range_exc(args.path) = ""
    /\ get_range(args.path) # None
    /\ EnterProcessFile(args.path, get_range(args.path))
    /\ UNCHANGED <<fs, env, exit_code, dirs, ck, dirname, names, pd, rf,
                   result>>

\* check(path) of a channel directory, up to its for loop.  os.listdir
\* returns the names in an order of the file system's choice, and the loop
\* takes them in that order: the model keeps the names still to come and
\* lets any of them be the next.
CheckChannel ==
    /\ pc = "check"
    /\ isdir(fs, args.path)
    /\ dirs' = names_in(fs, args.path)
    /\ ck' = Zero
    /\ pc' = "check_dirs"
    /\ UNCHANGED <<fs, env, exit_code, dirname, names, pd, fname, range, fin,
                   cf, rf, result, pre>>

\* the for loop of check: a name that is no directory is passed over
CheckSkip ==
    /\ pc = "check_dirs"
    /\ \E d \in dirs :
          /\ ~isdir(fs, join(args.path, d))
          /\ dirs' = dirs \ {d}
    /\ UNCHANGED <<fs, env, pc, exit_code, ck, dirname, names, pd, fname,
                   range, fin, cf, rf, result, pre>>

\* the for loop of check: process_dir is entered
CheckDir ==
    /\ pc = "check_dirs"
    /\ \E d \in dirs :
          /\ isdir(fs, join(args.path, d))
          /\ dirs' = dirs \ {d}
          /\ dirname' = join(args.path, d)
          /\ names' = names_in(fs, join(args.path, d))
    /\ pd' = Zero
    /\ pc' = "process_dir"
    /\ UNCHANGED <<fs, env, exit_code, ck, fname, range, fin, cf, rf,
                   result, pre>>

\* the for loop of check is over: the summary is printed, main exits with 0
CheckDone ==
    /\ pc = "check_dirs"
    /\ dirs = {}
    /\ pc' = "exit"
    /\ exit_code' = 0
    /\ UNCHANGED <<fs, env, dirs, ck, dirname, names, pd, fname, range, fin,
                   cf, rf, result, pre>>

\* the for loop of process_dir: an archived file is passed over
ProcessDirGz ==
    /\ pc = "process_dir"
    /\ \E fn \in names :
          /\ endswith(fn, GZ)
          /\ names' = names \ {fn}
    /\ UNCHANGED <<fs, env, pc, exit_code, dirs, ck, dirname, pd, fname,
                   range, fin, cf, rf, result, pre>>

\* the same, were the file counted among the files processed
ProcessDirSkipCounted ==
    /\ pc = "process_dir"
    /\ \E fn \in names :
          /\ ~endswith(fn, GZ)
          /\ get_range_exc(join(dirname, fn)) = ""
          /\ get_range(join(dirname, fn)) = None
          /\ names' = names \ {fn}
    /\ pd' = [pd EXCEPT !.files = @ + 1]
    /\ UNCHANGED <<fs, env, pc, exit_code, dirs, ck, dirname, fname,
                   range, fin, cf, rf, result, pre>>

\* the for loop of process_dir: a file without a key range is skipped
ProcessDirSkip ==
    /\ pc = "process_dir"
    /\ \E fn \in names :
          /\ ~endswith(fn, GZ)
          /\ get_range_exc(join(dirname, fn)) = ""
          /\ get_range(join(dirname, fn)) = None
          /\ names' = names \ {fn}
    /\ UNCHANGED <<fs, env, pc, exit_code, dirs, ck, dirname, pd, fname,
                   range, fin, cf, rf, result, pre>>

\* the for loop of process_dir: get_range, or int(timestamp + fname, 16) of
\* line 93 behind it, raises ValueError and ends the walk
ProcessDirRaise ==
    /\ pc = "process_dir"
    /\ \E fn \in names :
          /\ ~endswith(fn, GZ)
          /\ \/ get_range_exc(join(dirname, fn)) # ""
             \/ /\ get_range_exc(join(dirname, fn)) = ""
                /\ get_range(join(dirname, fn)) # None
                /\ timestamp(dirname, fn).exc # ""
          /\ names' = names \ {fn}
    /\ pc' = "raised"
    /\ exit_code' = 1
    /\ UNCHANGED <<fs, env, dirs, ck, dirname, pd, fname, range, fin,
                   cf, rf, result, pre>>

\* the for loop of process_dir: a file the block filter leaves out
ProcessDirFiltered ==
    /\ pc = "process_dir"
    /\ \E fn \in names :
          /\ ~endswith(fn, GZ)
          /\ get_range_exc(join(dirname, fn)) = ""
          /\ get_range(join(dirname, fn)) # None
          /\ filtered_out(timestamp(dirname, fn).val, args.block_filter)
          /\ names' = names \ {fn}
    /\ UNCHANGED <<fs, env, pc, exit_code, dirs, ck, dirname, pd, fname,
                   range, fin, cf, rf, result, pre>>

\* the for loop of process_dir: process_file is entered
ProcessDirFile ==
    /\ pc = "process_dir"
    /\ \E fn \in names :
          /\ ~endswith(fn, GZ)
          /\ get_range_exc(join(dirname, fn)) = ""
          /\ get_range(join(dirname, fn)) # None
          /\ ~filtered_out(timestamp(dirname, fn).val, args.block_filter)
          /\ names' = names \ {fn}
          /\ EnterProcessFile(join(dirname, fn),
                              get_range(join(dirname, fn)))
    /\ UNCHANGED <<fs, env, exit_code, dirs, ck, dirname, pd, rf, result>>

\* process_dir returns its totals and check adds them to its own
ProcessDirReturn ==
    /\ pc = "process_dir"
    /\ names = {}
    /\ ck' = [files |-> ck.files + pd.files,
              ferrors |-> ck.ferrors + pd.ferrors,
              records |-> ck.records + pd.records,
              errors |-> ck.errors + pd.errors]
    /\ pc' = "check_dirs"
    /\ UNCHANGED <<fs, env, exit_code, dirs, dirname, names, pd, fname,
                   range, fin, cf, rf, result, pre>>

\* one iteration of the loop of check_file
CheckFileIter ==
    /\ pc = "check_file"
    /\ ~cf.done /\ cf.exc = ""
    /\ \E mem_fails \in BOOLEAN :
          cf' = check_file_iter(fin, cf, range[1], range[2], mem_fails)
    /\ UNCHANGED <<fs, env, pc, exit_code, dirs, ck, dirname, names, pd,
                   fname, range, fin, rf, result, pre>>

\* an exception raised in check_file: its except clause runs, or else the
\* exception leaves the program with a traceback
CheckFileExcept ==
    /\ pc = "check_file"
    /\ cf.exc # ""
    /\ IF except_Exception(cf.exc)
       THEN cf' = check_file_except(cf) /\ pc' = pc /\ exit_code' = exit_code
       ELSE cf' = cf /\ pc' = "raised" /\ exit_code' = 1
    /\ UNCHANGED <<fs, env, dirs, ck, dirname, names, pd, fname, range, fin,
                   rf, result, pre>>

\* process_file, line 118: no errors, or no repair asked for
ProcessFileReturn ==
    /\ pc = "check_file"
    /\ cf.done
    /\ no_repair(cf.errors, args.repair)
    /\ ReturnProcessFile(cf.records_read, cf.errors)
    /\ UNCHANGED <<fs, env, dirs, ck, dirname, names, fname, range, fin, cf,
                   rf, pre>>

\* process_file, lines 120-121: the input is opened again and the
\* temporary file is created
ProcessFileRepair ==
    /\ pc = "check_file"
    /\ cf.done
    /\ ~no_repair(cf.errors, args.repair)
    /\ fin' = open(fname)
    /\ fs' = write_file(fs, plus(fname, REPAIRING), <<>>)
    /\ rf' = repair_file_enter
    /\ pc' = "repair_file"
    /\ UNCHANGED <<env, exit_code, dirs, ck, dirname, names, pd, fname,
                   range, cf, result, pre>>

\* one iteration of the loop of repair_file; the full blocks of what it
\* wrote reach the temporary file, and all of it when an exception leaves
\* the with block of line 121
RepairFileIter ==
    /\ pc = "repair_file"
    /\ ~rf.done
    /\ \E mem_fails \in BOOLEAN :
          rf' = repair_file_iter(fin, rf, range[1], range[2], mem_fails)
    /\ LET rep_fname == plus(fname, REPAIRING)
           disk == repair_file_flushed(Len(fs[rep_fname]), rf, rf')
       IN  fs' = write_file(fs, rep_fname,
                            IF rf'.raised # "" THEN rf'.out
                            ELSE SubSeq(rf'.out, 1, Min(disk, Len(rf'.out))))
    /\ IF rf'.raised # ""
       THEN pc' = "raised" /\ exit_code' = 1
       ELSE pc' = pc /\ exit_code' = exit_code
    /\ UNCHANGED <<env, dirs, ck, dirname, names, pd, fname, range, fin,
                   cf, result, pre>>

\* process_file, line 123 and the end of the with block: what repair_file
\* wrote reaches the temporary file
ProcessFileFlush ==
    /\ pc = "repair_file"
    /\ rf.done
    /\ fs' = write_file(fs, plus(fname, REPAIRING), rf.out)
    /\ pc' = "rename_broken"
    /\ UNCHANGED <<env, exit_code, dirs, ck, dirname, names, pd, fname,
                   range, fin, cf, rf, result, pre>>

\* process_file, line 124
ProcessFileRenameBroken ==
    /\ pc = "rename_broken"
    /\ fs' = rename(fs, fname, plus(fname, BROKEN))
    /\ pc' = "rename_repaired"
    /\ UNCHANGED <<env, exit_code, dirs, ck, dirname, names, pd, fname,
                   range, fin, cf, rf, result, pre>>

\* process_file, lines 125-126
ProcessFileRenameRepaired ==
    /\ pc = "rename_repaired"
    /\ fs' = rename(fs, plus(fname, REPAIRING), fname)
    /\ ReturnProcessFile(rf.records_written, cf.errors)
    /\ UNCHANGED <<env, dirs, ck, dirname, names, fname, range, fin, cf, rf,
                   pre>>

Next ==
    \/ CheckExit3
    \/ CheckRaise
    \/ CheckFile
    \/ CheckChannel
    \/ CheckSkip
    \/ CheckDir
    \/ CheckDone
    \/ ProcessDirGz
    \/ ProcessDirSkip
    \/ ProcessDirRaise
    \/ ProcessDirFiltered
    \/ ProcessDirFile
    \/ ProcessDirReturn
    \/ CheckFileIter
    \/ CheckFileExcept
    \/ ProcessFileReturn
    \/ ProcessFileRepair
    \/ RepairFileIter
    \/ ProcessFileFlush
    \/ ProcessFileRenameBroken
    \/ ProcessFileRenameRepaired

Spec == Init /\ [][Next]_vars

\* sequences of up to n records of the first key of the range: what the
\* generator and the size audit, which look at no key, tell apart
SameKeySeqs(rng, n) ==
    {recs \in RecordSeqs(rng, n) :
        \A i \in 1..Len(recs) : recs[i].key = rng[1]}

\* ------------------------------------------------ the size-index codec
\* sizes and counts to write and read back
Samples ==
    {long(n) : n \in {0 - 1, 0, 1, 255, 256, 65536, 16777216 + 258, Huge}}
        \cup {unpack_value(TwoTo40), unpack_value(AllOnes),
              long_add(unpack_value(AllOnes), long(1))}

OUT == <<CHAN, SIZEINFO>>

\* the file a run writes the size info to
SUM == <<CHAN, <<"s", "u", "m">>>>

\* sidecar files to read: the 16 bytes of a count of records and a size, and
\* files cut short
Stated ==
    {struct_pack(r).data \o struct_pack(z).data :
        r \in {x \in Samples : struct_pack(x).exc = ""},
        z \in {x \in Samples : struct_pack(x).exc = ""}}
        \cup {<<>>, pack(1), pack(1) \o <<2>>}

\* -r SIZEINFO [-a SIZEINFO] [-w SUM]: the sidecar file of the channel is
\* read, the size info of a file added to it (the same file, or one that
\* does not exist), the sum written
InitCodec ==
    /\ orig = <<>> /\ damage = NoDamage
    /\ \E bytes \in Stated :
          fs = (OUT :> bytes) @@ (F1 :> <<>>) @@ (F2 :> <<>>) @@ OtherFiles
    /\ media = [path |-> F1, bad |-> NoBad]
    /\ \E add_from \in {NoPath, OUT, SUM}, write \in {NoPath, SUM} :
          args = [repair |-> FALSE, path |-> OUT, block_filter |-> NoFilter,
                  add_from |-> add_from, write |-> write]
    /\ Idle
    /\ info = SizeInfo
    /\ pc = "read"

\* main, lines 31-33: info = Reader(args).read(args.read)
ReaderRead ==
    /\ pc = "read"
    /\ LET got == Reader_read(fs, args.path, media)
       IN  IF got.exc # ""
           THEN pc' = "raised" /\ exit_code' = 1 /\ info' = info
           ELSE pc' = "add" /\ exit_code' = 0 /\ info' = got.info
    /\ UNCHANGED <<fs, media, args, orig, damage, given, gen_out, report,
                   locals>>

\* main, lines 35-37: info += Reader(args).read(args.add_from)
MainAddFrom ==
    /\ pc = "add"
    /\ LET got == main_add_from(fs, info, args.add_from, media)
       IN  /\ info' = got.info
           /\ IF got.exc # ""
              THEN pc' = "raised" /\ exit_code' = 1
              ELSE pc' = "write" /\ exit_code' = exit_code
    /\ UNCHANGED <<fs, media, args, orig, damage, given, gen_out, report,
                   locals>>

\* main, lines 40-43: Writer(args).write(args.write, info) and the print
WriterWrite ==
    /\ pc = "write"
    /\ LET got == main_write(fs, info, args.write)
       IN  /\ fs' = got.files
           /\ IF got.exc # ""
              THEN pc' = "raised" /\ exit_code' = 1
              ELSE pc' = "print" /\ exit_code' = exit_code
    /\ given' = IF args.write = NoPath THEN given ELSE info
    /\ UNCHANGED <<media, args, info, orig, damage, gen_out, report, locals>>

\* The program has written the size info and is run again with -r on the
\* file it wrote.
RunRead ==
    /\ pc = "print"
    /\ args.write # NoPath
    /\ args' = [args EXCEPT !.path = args.write, !.add_from = NoPath,
                            !.write = NoPath]
    /\ info' = SizeInfo
    /\ pc' = "read"
    /\ UNCHANGED <<fs, media, exit_code, orig, damage, given, gen_out,
                   report, locals>>

NextCodec == ReaderRead \/ MainAddFrom \/ WriterWrite \/ RunRead

CodecSpec == InitCodec /\ [][NextCodec]_vars

\* -------------------------------------------- the size-index generator
\* 0x52123: F2 lies below it and F1 above
Partitions ==
    {<<Filter("<", 336163), Filter(">=", 336163)>>,
     <<Filter("==", 336165), Filter("!=", 336165)>>,
     <<Filter("<=", 336160), Filter(">", 336160)>>}

GenFilters == {NoFilter} \cup {p[1] : p \in Partitions}
                        \cup {p[2] : p \in Partitions}

\* a channel to generate the size info of, F1 generated from up to m records
InitGenOf(m) ==
    /\ \E n \in 0..m :
       \E recs \in SameKeySeqs(R1, n) :
       \E d \in {d \in Damages(R1, recs) : d = NoDamage \/ n <= 1} :
       \E recs2 \in {<<>>, <<Record(R2[1], <<7>>)>>} :
       \E d2 \in {d2 \in Damages(R2, recs2) :
                    \/ d2 = NoDamage
                    \/ /\ d2.kind \in {"length", "far"}
                       /\ d.kind \in {"none", "far"}
                       /\ recs \in {<<>>, <<Record(R1[1], <<7>>)>>}} :
       \E others \in {SidecarAndArchive} \cup
                      (IF n <= 1 /\ d = NoDamage /\ d2 = NoDamage
                       THEN {OtherFiles} ELSE {}) :
          /\ Len(recs) = n
          /\ orig = recs /\ damage = d
          /\ fs = (F1 :> damaged(recs, d)) @@ (F2 :> damaged(recs2, d2))
                  @@ others
    /\ media = [path |-> F1, bad |-> NoBad]
    /\ args = [repair |-> FALSE, path |-> <<CHAN>>, block_filter |-> NoFilter,
                  add_from |-> NoPath, write |-> NoPath]
    /\ Idle
    /\ info = SizeInfo
    /\ pc = "main"

InitGen == InitGenOf(MaxRecs)

\* main, lines 28-43, of one run of --generate CHANNEL, without a block
\* filter or with one side of a partition, not yet run with:
\* info = Generator(args).generate(args.generate), then --add-from and
\* --write when they are given.  Each run is a process of its own: info is
\* the one of this run, SizeInfo when it has none.
MainGenerate ==
    /\ pc = "main"
    /\ \E block_filter \in GenFilters \ DOMAIN gen_out :
          /\ \E p \in Partitions :
                DOMAIN gen_out \cup {block_filter}
                    \subseteq {NoFilter, p[1], p[2]}
          /\ \E got \in Generator_runs(fs, args.path, block_filter, media) :
                LET added == IF got.exc # "" THEN [exc |-> got.exc, info |-> SizeInfo]
                             ELSE main_add_from(fs, got.info, args.add_from,
                                                media)
                    wrote == IF added.exc # "" THEN [exc |-> added.exc, files |-> fs]
                             ELSE main_write(fs, added.info, args.write)
                IN  /\ args' = [args EXCEPT !.block_filter = block_filter]
                    /\ gen_out' = gen_out @@ (block_filter :> got)
                    /\ info' = added.info
                    /\ fs' = wrote.files
                    /\ given' = IF added.exc # "" \/ args.write = NoPath
                                THEN given ELSE added.info
                    /\ exit_code' = IF wrote.exc = "" THEN 0 ELSE 1
    /\ UNCHANGED <<media, orig, damage, report, pc, locals>>

NextGen == MainGenerate

GenSpec == InitGen /\ [][NextGen]_vars

\* ------------------------------------------------------ the size audit
\* sizes a sidecar may state
StoredSizes == {0, 1, 2, size_t_sizeof * 2, size_t_sizeof * 2 + 1, size_t_sizeof * 4 + 1}

\* the sidecar files of a channel whose F1 holds up to n records: a stated
\* size info, a file cut short, and no file at all
Sidecars(n) ==
    {<<pack(r) \o pack(z)>> : r \in 0..(n + 1), z \in StoredSizes}
        \cup {<<pack(r) \o z>> : r \in 1..2, z \in {TwoTo40, TwoTo40Plus1}}
        \cup {<<pack(1)>>, <<pack(1) \o <<2>>>>, <<>>}

\* -s CHANNEL: a channel and its sidecar file
InitSize ==
    /\ \E n \in 0..MaxRecs :
       \E recs \in SameKeySeqs(R1, n) :
       \E d \in {d \in Damages(R1, recs) :
                    d = NoDamage \/ (n = 1 /\ d.kind \in {"trunc", "far"})} :
       \E recs2 \in {<<>>, <<Record(R2[1], <<7>>)>>} :
       \E stray \in IF n = 0 THEN BOOLEAN ELSE {FALSE} :
       \E sidecar \in Sidecars(n) :
          /\ Len(recs) = n
          /\ orig = recs /\ damage = d
          /\ fs = (F1 :> damaged(recs, d)) @@ (F2 :> encode(recs2))
                  @@ (IF sidecar = <<>> THEN <<>>
                      ELSE (<<CHAN, SIZEINFO>> :> sidecar[1]))
                  @@ (<<CHAN, D52, N125 \o GZ>> :> <<31, 139>>)
                  @@ (IF stray THEN (<<CHAN, D52, TMP>> :> <<>>) ELSE <<>>)
    /\ media = [path |-> F1, bad |-> NoBad]
    /\ args = [repair |-> FALSE, path |-> <<CHAN>>, block_filter |-> NoFilter,
                  add_from |-> NoPath, write |-> NoPath]
    /\ Idle
    /\ info = SizeInfo
    /\ pc = "size_check"

\* main, lines 22-25: SizeChecker(args).check(args.size_check); sys.exit(0)
MainSizeCheck ==
    /\ pc = "size_check"
    /\ \E got \in {SizeChecker_check(fs, args.path, args.block_filter,
                                      lists, media, seek_exc) :
                        lists \in listings(fs, directories(fs)),
                        seek_exc \in seek_outcomes(fs)} :
              /\ report' = got.report
              /\ pc' = IF got.exc \in {"", "SystemExit"} THEN "exit"
                       ELSE "raised"
              /\ exit_code' = IF got.exc = "" THEN 0 ELSE 1
    /\ UNCHANGED <<fs, media, args, orig, damage, info, given, gen_out,
                   locals>>

NextSize == MainSizeCheck

SizeSpec == InitSize /\ [][NextSize]_vars

\* ------------------------------------------------ the key-range resolver
\* names of directories and of files: of the usual length or not,
\* hexadecimal or not, in either case, behind 0x or not, and the empty name
DirNames ==
    {D52, <<"5", "2">>, <<"5">>, <<"0", "x", "5", "2">>, TMP, <<>>}

FileNames ==
    {N125, <<"1">>, <<"1", "2">>, <<"A", "b", "C">>, <<"0", "x", "1">>,
     <<"0", "X", "1", "f">>, <<"0", "x">>, N125 \o GZ, TMP, <<>>}

\* paths of one, two and three components that main hands to check and
\* check to get_range: not the empty path, which main takes for an option
\* not given (line 17), and not "/", which is a directory (line 51)
RangePaths ==
    ({<<f>> : f \in FileNames}
        \cup {<<d, f>> : d \in DirNames, f \in FileNames}
        \cup {<<CHAN, d, f>> : d \in DirNames, f \in FileNames})
    \ {<<<<>>>>, <<<<>>, <<>>>>}

\* a path without the empty components at its end
Stem(path) ==
    LET n == CHOOSE n \in 0..Len(path) :
                 /\ \A i \in (n + 1)..Len(path) : path[i] = <<>>
                 /\ n = 0 \/ path[n] # <<>>
    IN  SubSeq(path, 1, n)

\* -c FILE or -R FILE with a path that is no directory, to resolve the key
\* range of: the path names a regular file, or it ends in "/" behind the
\* name of a regular file, and os.path.isdir is False for both (line 51)
InitRange ==
    /\ orig = <<>> /\ damage = NoDamage
    /\ \E path \in RangePaths :
          /\ fs = (Stem(path) :> <<>>)
          /\ media = [path |-> path, bad |-> NoBad]
          /\ \E repair \in BOOLEAN :
                args = [repair |-> repair, path |-> path,
                        block_filter |-> NoFilter,
                  add_from |-> NoPath, write |-> NoPath]
    /\ Idle
    /\ info = SizeInfo
    /\ pc = "get_range"

\* check, line 52: range = self.get_range(path)
GetRange ==
    /\ pc = "get_range"
    /\ IF get_range_exc(args.path) # ""
       THEN pc' = "raised" /\ exit_code' = 1 /\ range' = range
       ELSE pc' = "resolved" /\ exit_code' = exit_code
                /\ range' = get_range(args.path)
    /\ UNCHANGED <<fs, env, dirs, ck, dirname, names, pd, fname, fin, cf, rf,
                   result, pre>>

NextRange == GetRange

RangeSpec == InitRange /\ [][NextRange]_vars

\* ------------------------------------------------------ the block filter
\* the six operators, with a literal between the two block files, the
\* literal of the help text, and with the value of one of them
AllFilters ==
    {Filter(op, literal) : op \in {"<", "<=", ">", ">=", "==", "!="},
                           literal \in {336163, 336165}}

\* a walk or a generation over a channel with a block filter
InitFilter ==
    \/ InitFileOf(0)
    \/ InitNoRange
    \/ /\ InitChannelWith(1, {NoFilter} \cup AllFilters)
       /\ damage.kind \in {"none", "key"}
       /\ \A i \in 1..Len(orig) : orig[i] = Record(R1[1], <<7>>)
    \/ InitGenOf(1)

FilterSpec == InitFilter /\ [][Next \/ NextGen]_vars

\* ------------------------------------------------------------ later runs
\* The program has ended and is run again, with -c or -R, on the same path
\* and on the files the run before has left.
RunAgain ==
    /\ pc \in {"exit", "raised"}
    /\ \E repair \in BOOLEAN : args' = [args EXCEPT !.repair = repair]
    /\ pc' = "check"
    /\ exit_code' = 0
    /\ dirs' = {} /\ ck' = Zero
    /\ dirname' = <<>> /\ names' = {} /\ pd' = Zero
    /\ fname' = <<>> /\ range' = None
    /\ fin' = [data |-> <<>>, bad |-> NoBad]
    /\ cf' = check_file_enter /\ rf' = repair_file_enter
    /\ result' = <<0, 0>>
    /\ pre' = fs
    /\ UNCHANGED <<fs, media, orig, damage, info, given, gen_out, report>>

AgainSpec == Init /\ [][Next \/ RunAgain]_vars

\* -c CHANNEL or -R CHANNEL on a channel that holds nothing but its block
\* files, an archived block file and its sidecar file
InitClean ==
    /\ \E recs \in RecordSeqs(R1, 1) :
       \E d \in Damages(R1, recs) :
          /\ orig = recs /\ damage = d
          /\ fs = (F1 :> damaged(recs, d)) @@ (F2 :> <<>>)
                  @@ SidecarAndArchive
    /\ media = [path |-> F1, bad |-> NoBad]
    /\ \E repair \in BOOLEAN :
          args = [repair |-> repair, path |-> <<CHAN>>,
                  block_filter |-> NoFilter,
                  add_from |-> NoPath, write |-> NoPath]
    /\ Idle
    /\ pc = "check" /\ info = SizeInfo

\* The program has ended its walk of the channel and is run again with
\* --generate CHANNEL on the files the walk has left.
RunGenerate ==
    /\ pc \in {"exit", "raised"}
    /\ args.path = <<CHAN>>
    /\ args' = [args EXCEPT !.repair = FALSE, !.block_filter = NoFilter]
    /\ pc' = "main"
    /\ exit_code' = 0
    /\ dirs' = {} /\ ck' = Zero
    /\ dirname' = <<>> /\ names' = {} /\ pd' = Zero
    /\ fname' = <<>> /\ range' = None
    /\ fin' = [data |-> <<>>, bad |-> NoBad]
    /\ cf' = check_file_enter /\ rf' = repair_file_enter
    /\ result' = <<0, 0>>
    /\ pre' = fs
    /\ gen_out' = NoRuns /\ info' = SizeInfo
    /\ UNCHANGED <<fs, media, orig, damage, given, report>>

LaterSpec ==
    (InitShort \/ InitClean)
        /\ [][Next \/ RunAgain \/ RunGenerate \/ NextGen]_vars

\* The program is one thread that runs until it exits: it always takes its
\* next step.
FairSpec == InitShort /\ [][Next]_vars /\ WF_vars(Next)

\* ======================================================== the properties
\* the bytes of a list of (key_bytes, length_bytes, value_bytes)
RECURSIVE flatten(_)
flatten(triples) ==
    IF triples = <<>> THEN <<>>
    ELSE Head(triples)[1] \o Head(triples)[2] \o Head(triples)[3]
         \o flatten(Tail(triples))

\* the (key_bytes, length_bytes, value_bytes) of a list of records
Triples(recs) == [i \in 1..Len(recs) |-> triple(recs[i])]

\* seq without its element idx
Remove(seq, idx) ==
    SubSeq(seq, 1, idx - 1) \o SubSeq(seq, idx + 1, Len(seq))

\* a is b with some elements left out, the others in their order
RECURSIVE IsSubseq(_, _)
IsSubseq(a, b) ==
    IF a = <<>> THEN TRUE
    ELSE IF b = <<>> THEN FALSE
    ELSE IF Head(a) = Head(b) THEN IsSubseq(Tail(a), Tail(b))
    ELSE IsSubseq(a, Tail(b))

\* part occurs in whole as a run of consecutive bytes
Occurs(part, whole) ==
    \E at \in 0..(Len(whole) - Len(part)) :
        SubSeq(whole, at + 1, at + Len(part)) = part

\* a decoded key lies in the key range rng
InRange(key, rng) ==
    ~long_lt(key, long(rng[1])) /\ ~long_lt(long(rng[2]), key)

\* the Python integer 8 bytes stand for
Decoded(bytes) == [neg |-> FALSE, mag |-> strip(bytes)]

\* the block file F2 is well formed
F2Sound ==
    F2 \in DOMAIN fs /\ fs[F2] \in {<<>>, encode(<<Record(R2[1], <<7>>)>>)}

\* process_file is under way
InProcessFile ==
    pc \in {"check_file", "repair_file", "rename_broken", "rename_repaired"}

\* the part of process_file behind its line 119
InRepair == pc \in {"repair_file", "rename_broken", "rename_repaired"}

\* the latest process_file has returned, and it had to repair its file
Repaired ==
    /\ pc \in {"exit", "process_dir", "check_dirs"}
    /\ fname # <<>>
    /\ args.repair /\ cf.done /\ cf.errors >= 1

\* C1: a block file of N complete records with keys in the range of the
\* file is checked with records_read = N and errors = 0, for every N >= 0.
C1_WellFormedFileReadsClean ==
    (fname = F1 /\ damage = NoDamage /\ cf.done) =>
        (cf.records_read = Len(orig) /\ cf.errors = 0)

C1_Witness ==
    /\ fname = F1 /\ damage = NoDamage /\ cf.done
    /\ Len(orig) >= 2 /\ cf.records_read = Len(orig)
    /\ \E i \in 1..Len(orig) : Len(orig[i].value) > 0

\* C2: when one record's key of a well-formed file was replaced by a key
\* out of range, the records repair_file writes are a subsequence, in the
\* original order, of the other original records.
C2_RepairOnlyRemovesRecords ==
    (fname = F1 /\ damage.kind = "key" /\ InRepair /\ rf.done) =>
        IsSubseq(rf.written, Triples(Remove(orig, damage.idx)))

\* C3: after process_file has repaired a file, <path>.broken holds the
\* bytes <path> had before, <path> holds the records repair_file wrote and
\* nothing else, each of them decoded from the original with a key in range;
\* they got there through <path>.repairing, the original was not written to.
C3_RepairLeavesBrokenAndRecords ==
    /\ pc \in {"repair_file", "rename_broken"} => fs[fname] = pre[fname]
    /\ pc \in {"rename_broken", "rename_repaired"} =>
          fs[plus(fname, REPAIRING)] = flatten(rf.written)
    /\ Repaired =>
          /\ fs[plus(fname, BROKEN)] = pre[fname]
          /\ fs[fname] = flatten(rf.written)
          /\ plus(fname, REPAIRING) \notin DOMAIN fs
          /\ Len(rf.written) = result[1]
          /\ \A i \in 1..Len(rf.written) :
                LET t == rf.written[i]
                IN  /\ Len(t[1]) = size_t_sizeof /\ Len(t[2]) = size_t_sizeof
                    /\ InRange(Decoded(t[1]), range)
                    /\ Occurs(t[1] \o t[2] \o t[3], pre[fname])

C3_Witness ==
    /\ Repaired
    /\ Len(rf.written) >= 1
    /\ fs[fname] # pre[fname]
    /\ fs[plus(fname, BROKEN)] = pre[fname]

\* C4: in every state of a repairing process_file, <path> exists and holds
\* either all of its bytes from before the repair or all of the repaired
\* bytes.
C4_PathAlwaysComplete ==
    (InProcessFile /\ args.repair) =>
        /\ fname \in DOMAIN fs
        /\ \/ fs[fname] = pre[fname]
           \/ rf.done /\ fs[fname] = flatten(rf.written)

\* C5: when a read of the stream fails and goes on failing, check_file
\* still ends its scan of the file and returns.
C5_ScanEndsOnReadFailure ==
    (pc = "check_file" /\ cf.exc = "IOError") ~> (pc # "check_file")

\* When check_file is at the top of its loop in front of 8 readable bytes
\* that are a key out of range.
AtOutOfRangeKey ==
    /\ pc = "check_file" /\ ~cf.done /\ cf.exc = ""
    /\ cf.pos + size_t_sizeof <= Len(fin.data)
    /\ fin.bad = NoBad \/ cf.pos + size_t_sizeof <= fin.bad
    /\ ~InRange(Decoded(SubSeq(fin.data, cf.pos + 1,
                                cf.pos + size_t_sizeof)), range)

\* C6: on a key out of range check_file adds exactly one error, leaves
\* records_read alone, reads no length and no value, and goes on with the 8
\* bytes right behind the key as the next key.
C6_ResyncOnOutOfRangeKey ==
    [][AtOutOfRangeKey =>
          /\ cf'.errors = cf.errors + 1
          /\ cf'.records_read = cf.records_read
          /\ cf'.reads = <<"key">>
          /\ cf'.pos = cf.pos + size_t_sizeof
          /\ cf'.exc = "" /\ ~cf'.done
          /\ pc' = "check_file" /\ fin' = fin]_vars

C6_Witness ==
    /\ pc = "check_file" /\ ~cf.done /\ cf.exc = ""
    /\ cf.reads = <<"key">> /\ cf.errors >= 1
    /\ ~InRange(cf.key, range)
    /\ cf.pos + size_t_sizeof <= Len(fin.data)

\* get_range returns for every file there is
NamesResolve == \A f \in DOMAIN fs : get_range_exc(f) = ""

\* the block files a walk of the channel has to process
Eligible ==
    {f \in DOMAIN fs :
        /\ Len(f) = 3
        /\ ~endswith(f[3], GZ)
        /\ get_range(f) # None
        /\ ~filtered_out(timestamp(<<f[1], f[2]>>, f[3]).val,
                         args.block_filter)}

\* C7: no exception leaves check_file, whatever the bytes of the file, and
\* a walk of a channel processes every eligible file, also those behind a
\* file with errors.
C7_CorruptionNeverAborts ==
    /\ NamesResolve => pc # "raised"
    /\ cf.done => cf.exc = ""
    /\ (pc = "exit" /\ args.path = <<CHAN>> /\ NamesResolve) =>
          /\ ck.files = Cardinality(Eligible)
          /\ ck.ferrors <= ck.files

C7_Witness ==
    /\ pc = "exit" /\ args.path = <<CHAN>>
    /\ ck.files = 2 /\ ck.ferrors = 2 /\ ck.errors >= 3

\* C8: the file system changes, and the repair part of process_file is
\* reached, only in repair mode and after check_file reported an error for
\* the same file; and then nothing changes but <path>, <path>.repairing and
\* <path>.broken.
C8_RepairIsGated ==
    [][(fs' # fs \/ pc' \in {"repair_file", "rename_broken",
                             "rename_repaired"}) =>
          /\ args.repair /\ cf.done /\ cf.errors >= 1
          /\ fin.data = pre[fname]
          /\ \A f \in (DOMAIN fs \cup DOMAIN fs') \
                      {fname, plus(fname, REPAIRING), plus(fname, BROKEN)} :
                f \in DOMAIN fs /\ f \in DOMAIN fs' /\ fs'[f] = fs[f]]_vars

C8_Witness ==
    /\ pc = "exit" /\ fname = F1
    /\ ~args.repair /\ result[2] >= 1
    /\ fs = pre
    /\ plus(F1, BROKEN) \notin DOMAIN fs
    /\ plus(F1, REPAIRING) \notin DOMAIN fs

\* byte i (from 1) of the little-endian bytes of a number
le_byte(v, i) == IF i > Len(v.mag) THEN 0 ELSE v.mag[i]

\* the number is one of 0 .. 2^64-1
InUint64(v) == ~v.neg /\ Len(v.mag) <= size_t_sizeof

\* the run reads the file an earlier run has written
ReadsBack == args.path = SUM

\* a run has written its size info and no exception was raised
Wrote == (pc = "print" /\ args.write = SUM) \/ ReadsBack

\* C9: a SizeInfo of records and size in 0 .. 2^64-1 written by Writer.write
\* and read back by Reader.read from the same file is equal to the one
\* written, no exception is raised, and the file is exactly 16 bytes: the 8
\* bytes of the records field first, the 8 bytes of the size field second.
C9_CodecRoundTrip ==
    /\ (SUM \in DOMAIN fs /\ InUint64(info.records) /\ InUint64(info.size))
          => pc # "raised"
    /\ Wrote =>
          /\ InUint64(given.records) /\ InUint64(given.size)
          /\ Len(fs[SUM]) = 2 * size_t_sizeof
          /\ \A i \in 1..size_t_sizeof :
                /\ fs[SUM][i] = le_byte(given.records, i)
                /\ fs[SUM][size_t_sizeof + i] = le_byte(given.size, i)
    /\ (pc = "print" /\ args.write = SUM) => given = info
    /\ (ReadsBack /\ pc # "read") =>
          /\ pc \in {"add", "write", "print"}
          /\ SizeInfo_eq(info, given)

C9_Witness ==
    /\ pc = "print" /\ ReadsBack
    /\ given = [size |-> long(255), records |-> Decoded(AllOnes)]
    /\ info = given

\* the names in the bucket directory are hexadecimal or end in .gz
OnlyBlockFiles ==
    \A f \in DOMAIN fs :
        (Len(f) = 3 /\ ~endswith(f[3], GZ)) =>
            timestamp(<<f[1], f[2]>>, f[3]).exc = ""

\* C10: for a channel of well-formed block files, the size info generated
\* over the block files on one side of a partition plus the size info
\* generated over those on the other side equals the size info generated
\* over the whole channel, in records and in size.
C10_GeneratorIsAdditive ==
    (damage = NoDamage /\ F2Sound /\ OnlyBlockFiles) =>
        \A p \in Partitions :
            {NoFilter, p[1], p[2]} \subseteq DOMAIN gen_out =>
                /\ \A f \in {NoFilter, p[1], p[2]} : gen_out[f].exc = ""
                /\ SizeInfo_eq(SizeInfo_add(gen_out[p[1]].info,
                                           gen_out[p[2]].info),
                               gen_out[NoFilter].info)

C10_Witness ==
    /\ damage = NoDamage /\ F2Sound /\ OnlyBlockFiles
    /\ \E p \in Partitions :
          /\ {NoFilter, p[1], p[2]} \subseteq DOMAIN gen_out
          /\ long_gt(gen_out[p[1]].info.records, long(0))
          /\ long_gt(gen_out[p[1]].info.size, long(0))
          /\ long_gt(gen_out[p[2]].info.records, long(1))
          /\ long_gt(gen_out[p[2]].info.size, long(0))
          /\ gen_out[NoFilter].info.records = long(1 + MaxRecs)

\* the size info a sidecar file of 16 bytes states
Stored ==
    [size |-> Decoded(SubSeq(fs[OUT], size_t_sizeof + 1, 2 * size_t_sizeof)),
     records |-> Decoded(SubSeq(fs[OUT], 1, size_t_sizeof))]

\* the records of the two block files and the sum of the lengths they
\* state: those of their values, or 2^40 for the one record of F1 when its
\* length field was replaced by that
InChannel ==
    [size |-> long_add(IF damage.kind = "far" THEN Decoded(TwoTo40)
                       ELSE long(Len(fs[F1])
                                     - 2 * size_t_sizeof * Len(orig)),
                       long(IF fs[F2] = <<>> THEN 0 ELSE 1)),
     records |-> long(Len(orig) + (IF fs[F2] = <<>> THEN 0 ELSE 1))]

\* a size audit that generated the size info and read the sidecar file
Audited ==
    /\ pc = "exit"
    /\ damage.kind \in {"none", "far"}
    /\ OUT \in DOMAIN fs /\ Len(fs[OUT]) = 2 * size_t_sizeof

\* C11: a size audit that generates the size info of the channel and reads
\* its sidecar file exits with a nonzero code, having reported the expected
\* and the stored size info and their component-wise difference expected -
\* stored, if and only if the stored size info differs from the one of the
\* channel in records or in size, be it by 1 in 2^40; when both are equal
\* it reports nothing and exits with 0.
C11_AuditFailsIffDifferent ==
    Audited =>
        /\ (exit_code # 0) <=> (Stored # InChannel)
        /\ (exit_code # 0) =>
              report = [expected |-> InChannel, current |-> Stored,
                        diff |-> [size |-> long_sub(InChannel.size,
                                                    Stored.size),
                                  records |-> long_sub(InChannel.records,
                                                       Stored.records)],
                        said |-> TRUE]
        /\ (exit_code = 0) => report = NoReport

C11_Witness ==
    /\ Audited
    /\ exit_code = 1
    /\ report.said
    /\ report.diff.size = long(0) /\ report.diff.records.neg
    /\ Len(orig) = MaxRecs

\* the value of a string of hexadecimal digits, most significant first
RECURSIVE HexNumber(_)
HexNumber(str) ==
    IF str = <<>> THEN 0
    ELSE 16 * HexNumber(SubSeq(str, 1, Len(str) - 1)) + hex_digit(str[Len(str)])

\* the string without the 0x or 0X it may begin with
Digits(str) ==
    IF Len(str) >= 2 /\ str[1] = "0" /\ str[2] \in {"x", "X"}
    THEN SubSeq(str, 3, Len(str)) ELSE str

\* the name parses as a base-16 integer
ParsesHex(str) == int16(str).exc = ""

\* C12: get_range returns None exactly when the path has fewer than two
\* components or one of its last two components does not parse as a
\* base-16 integer; otherwise, whatever the lengths of the two names, it
\* returns (min_key, max_key) with min_key the hexadecimal value of
\* dirname + filename + "000" and max_key = min_key + 0xFFF.
C12_GetRangeResolves ==
    pc \in {"resolved", "raised"} =>
        LET path == args.path
            unresolvable == \/ Len(path) < 2
                            \/ ~ParsesHex(path[Len(path) - 1])
                            \/ ~ParsesHex(path[Len(path)])
        IN  /\ pc = "resolved"
            /\ (range = None) <=> unresolvable
            /\ ~unresolvable =>
                  /\ range[1] = 4096 * HexNumber(Digits(path[Len(path) - 1])
                                                  \o path[Len(path)])
                  /\ range[2] - range[1] + 1 = 4096

\* the same for file names that do not begin with 0x
GetRangeResolvesPlainNames ==
    (pc \in {"resolved", "raised"}
        /\ Digits(args.path[Len(args.path)]) = args.path[Len(args.path)])
    => C12_GetRangeResolves

\* the integer of a block file: its directory name and its file name,
\* concatenated, as hexadecimal
FileValue(f) == HexNumber(f[2] \o f[3])

\* value OP literal; no filter is satisfied by every value
Satisfies(v, block_filter) ==
    \/ block_filter.op = ""
    \/ block_filter.op = "<" /\ v < block_filter.literal
    \/ block_filter.op = "<=" /\ ~(v > block_filter.literal)
    \/ block_filter.op = ">" /\ v > block_filter.literal
    \/ block_filter.op = ">=" /\ ~(v < block_filter.literal)
    \/ block_filter.op = "==" /\ v = block_filter.literal
    \/ block_filter.op = "!=" /\ v # block_filter.literal

\* the block files of the channel the filter includes
Included(block_filter) ==
    {f \in {F1, F2} : Satisfies(FileValue(f), block_filter)}

\* the records and the value bytes of a well-formed block file
Counts(f) ==
    IF f = F1
    THEN [size |-> Len(fs[F1]) - 2 * size_t_sizeof * Len(orig),
          records |-> Len(orig)]
    ELSE [size |-> IF fs[F2] = <<>> THEN 0 ELSE 1,
          records |-> IF fs[F2] = <<>> THEN 0 ELSE 1]

\* the sum of Counts over the files the filter includes
CountsOfIncluded(block_filter) ==
    [size |-> long(
         (IF F1 \in Included(block_filter) THEN Counts(F1).size ELSE 0)
         + (IF F2 \in Included(block_filter) THEN Counts(F2).size ELSE 0)),
     records |-> long(
         (IF F1 \in Included(block_filter) THEN Counts(F1).records ELSE 0)
         + (IF F2 \in Included(block_filter) THEN Counts(F2).records ELSE 0))]

\* a file the walk leaves out is never repaired, and a walk that ends has
\* processed the files the filter includes and no other
WalkerFilters ==
    (args.path = <<CHAN>> /\ NamesResolve) =>
        /\ \A f \in {F1, F2} \ Included(args.block_filter) :
              /\ plus(f, BROKEN) \notin DOMAIN fs
              /\ plus(f, REPAIRING) \notin DOMAIN fs
        /\ pc = "exit" =>
              /\ ck.files = Cardinality(Included(args.block_filter))
              /\ Included(args.block_filter) = {} => ck = Zero
              /\ \A f \in {F1, F2} :
                    Included(args.block_filter) = {f} =>
                        /\ fname = f
                        /\ ck.records = result[1] /\ ck.errors = result[2]

\* a generation over well-formed block files counts the files the filter
\* includes and no other
GeneratorFilters ==
    (damage = NoDamage /\ F2Sound /\ OnlyBlockFiles) =>
        \A f \in DOMAIN gen_out :
            /\ gen_out[f].exc = ""
            /\ gen_out[f].info = CountsOfIncluded(f)

\* C13: with a block filter <OP> <literal>, the walker and the generator
\* process a block file if and only if the integer of its directory name
\* and file name, read as hexadecimal, satisfies value OP literal; a file
\* the filter excludes adds nothing to the totals and is never repaired.
C13_BlockFilter ==
    /\ []WalkerFilters
    /\ []GeneratorFilters
    /\ [][(pc = "process_dir" /\ pc' = "check_file") =>
             Satisfies(FileValue(fname'), args.block_filter)]_vars

\* "> 0x52123" includes 0000000052/125, which is repaired, and excludes
\* 0000000052/120, which has a record and is not
C13_Witness ==
    /\ pc = "exit" /\ args.path = <<CHAN>>
    /\ args.block_filter = Filter(">", 336163)
    /\ ck.files = 1 /\ ck.errors >= 1
    /\ plus(F1, BROKEN) \in DOMAIN fs
    /\ fs[F2] # <<>> /\ plus(F2, BROKEN) \notin DOMAIN fs

\* F1 ends inside a record: behind its key, with fewer than 8 bytes of the
\* length field
LengthCutShort ==
    /\ damage.kind = "trunc"
    /\ Len(orig) = 1
    /\ Len(fs[F1]) >= size_t_sizeof
    /\ Len(fs[F1]) < 2 * size_t_sizeof

\* C14: when a block file holds a record with fewer than 8 bytes of its
\* length field, a generation that reads the file ends with the decode
\* failure (struct.error) leaving generate: the run returns no size info
\* and exits with a nonzero code.
C14_GeneratorNotTolerant ==
    (LengthCutShort /\ OnlyBlockFiles) =>
        \A f \in DOMAIN gen_out :
            F1 \in Included(f) =>
                /\ gen_out[f].exc = "struct.error"
                /\ (args.block_filter = f) =>
                      exit_code = 1 /\ info = SizeInfo

C14_Witness ==
    /\ LengthCutShort /\ OnlyBlockFiles
    /\ Len(fs[F1]) = size_t_sizeof + 1
    /\ fs[F2] # <<>>
    /\ NoFilter \in DOMAIN gen_out
    /\ args.block_filter = NoFilter
    /\ gen_out[NoFilter].exc = "struct.error"


\* get_range(path) returns None: the path has no key range
Unresolvable(path) == get_range_exc(path) = "" /\ get_range(path) = None

\* the for loop of process_dir takes a name that is not archived and has
\* no key range
AtUnresolvable ==
    /\ pc = "process_dir"
    /\ \E fn \in names \ names' :
          ~endswith(fn, GZ) /\ Unresolvable(join(dirname, fn))

\* check is at a single path that has no key range
AtUnresolvablePath ==
    pc = "check" /\ ~isdir(fs, args.path) /\ Unresolvable(args.path)

\* no file without a key range is in process_file, nor was it repaired
UnresolvableNeverProcessed ==
    /\ InProcessFile => ~Unresolvable(fname)
    /\ \A f \in DOMAIN fs :
          (Unresolvable(f) /\ ~endswith(f[Len(f)], BROKEN)
                           /\ ~endswith(f[Len(f)], REPAIRING)) =>
             /\ f # fname
             /\ plus(f, BROKEN) \notin DOMAIN fs
             /\ plus(f, REPAIRING) \notin DOMAIN fs

\* exit code 3 exactly for a single path without a key range, never opened
ExitThree ==
    pc = "exit" =>
        /\ exit_code \in {0, 3}
        /\ exit_code = 3 <=> (~isdir(fs, args.path) /\ Unresolvable(args.path))
        /\ exit_code = 3 => (fname = <<>> /\ fs = pre /\ cf = check_file_enter)

\* C15: in a walk of a directory a file whose key range get_range cannot
\* resolve (it returns None) is passed over: it is not opened, checked or
\* repaired, the totals stay as they are and the walk goes on with the next
\* name; a single path without a key range ends the run with exit code 3,
\* which is not the 1 of a size mismatch, and the file is not opened.
C15_UnresolvableSkippedOrExit3 ==
    /\ []UnresolvableNeverProcessed
    /\ []ExitThree
    /\ [][AtUnresolvable =>
             /\ Cardinality(names') = Cardinality(names) - 1
             /\ pc' = "process_dir"
             /\ pd' = pd /\ ck' = ck /\ fs' = fs
             /\ fname' = fname /\ fin' = fin /\ cf' = cf /\ rf' = rf]_vars
    /\ [][AtUnresolvablePath =>
             /\ pc' = "exit" /\ exit_code' = 3
             /\ fs' = fs /\ fname' = fname /\ fin' = fin /\ cf' = cf]_vars

C15_Witness ==
    /\ pc = "exit" /\ args.path = <<CHAN>> /\ args.repair
    /\ <<CHAN, D52, TMP>> \in DOMAIN fs
    /\ ck.files = 2 /\ ck.errors >= 1
    /\ plus(F1, BROKEN) \in DOMAIN fs

\* the single path without a key range has ended the run
C15_SinglePathSeen ==
    pc = "exit" /\ exit_code = 3 /\ args.path = <<CHAN, D52, TMP>>


\* every read of the open file succeeds as far as the medium goes
Readable == fin.bad = NoBad

\* the loop of check_file is at its top, the loop of repair_file is
AtCheckLoop == pc = "check_file" /\ ~cf.done /\ cf.exc = ""
AtRepairLoop == pc = "repair_file" /\ ~rf.done

\* each iteration counted so far has consumed a byte of the stream, and the
\* stream is not behind the end of the file
ScanWithinFile ==
    /\ (pc = "check_file" /\ Readable) =>
          /\ cf.pos <= Len(fin.data)
          /\ cf.records_read + cf.errors <= cf.pos
    /\ (pc = "repair_file" /\ Readable) =>
          /\ rf.pos <= Len(fin.data)
          /\ rf.records_written <= rf.pos

\* C16: on a block file of any bytes whose medium reads, every iteration of
\* the loop of check_file and of repair_file either moves the stream on by
\* at least one byte or reads an empty key and leaves the loop; so both
\* scans end, after no more iterations than the file has bytes, plus one.
C16_ScansTerminate ==
    /\ []ScanWithinFile
    /\ [][(AtCheckLoop /\ Readable) =>
             \/ cf'.pos > cf.pos
             \/ cf'.done /\ cf.pos = Len(fin.data)]_vars
    /\ [][(AtRepairLoop /\ Readable) =>
             \/ rf'.pos > rf.pos
             \/ rf'.done /\ rf.pos = Len(fin.data)]_vars
    /\ (pc = "check_file" /\ Readable) ~> (pc # "check_file")
    /\ (pc = "repair_file" /\ Readable) ~> (pc # "repair_file")

C16_Witness ==
    /\ pc = "repair_file" /\ rf.done /\ Readable
    /\ damage.kind = "key"
    /\ Len(fin.data) > 2 * size_t_sizeof
    /\ rf.pos = Len(fin.data) /\ cf.pos = Len(fin.data)
    /\ cf.errors >= 2


\* the stream positions of fo at which a value read asks for BigRead bytes
\* or more: those behind a key of the range and a length of that size
BigReads(fo) ==
    {p + 2 * size_t_sizeof : p \in
        {q \in 0..Len(fo.data) :
            check_file_iter(fo, [check_file_enter EXCEPT !.pos = q],
                            range[1], range[2], TRUE).exc = "MemoryError"}}

\* process_file is checking a file that an earlier run has repaired
Rescanning ==
    /\ pc = "check_file"
    /\ plus(fname, BROKEN) \in DOMAIN pre
    /\ fin.bad = NoBad

\* check_file of the file process_file has just put in place
CheckOfRepaired ==
    check_file([data |-> fs[fname], bad |-> NoBad], range[1], range[2],
               {})

\* what check_file finds in a repaired file: no error, the records written
RepairedChecksClean ==
    Repaired =>
        /\ CheckOfRepaired[2] = 0
        /\ CheckOfRepaired[1] = result[1]
        /\ CheckOfRepaired[1] = Len(rf.written)
        /\ no_repair(CheckOfRepaired[2], TRUE)

\* the same to a host that grants every buffer: a later run over the same
\* files counts no error in the file as long as the host refuses it no
\* buffer, and then returns without a change to <path> or to <path>.broken
RepairFixedPointWhenGranted ==
    /\ []RepairedChecksClean
    /\ [][(Rescanning /\ AtCheckLoop /\ cf.errors = 0
                       /\ cf'.exc # "MemoryError") =>
             /\ cf'.exc = "" /\ cf'.errors = cf.errors
             /\ cf'.done \/ cf'.records_read = cf.records_read + 1]_vars
    /\ [][(Rescanning /\ cf.done /\ cf.errors = 0) =>
             /\ fs' = fs /\ pc' # "repair_file"
             /\ result' = <<cf.records_read, 0>>
             /\ fs[fname] = pre[fname]
             /\ fs[plus(fname, BROKEN)] = pre[plus(fname, BROKEN)]]_vars

\* the file process_file has put in place, opened on a medium that reads
RepairedFile == [data |-> fs[fname], bad |-> NoBad]

\* a run is in or behind the process_file of a file that an earlier run
\* has repaired
LaterRun ==
    /\ fname # <<>>
    /\ plus(fname, BROKEN) \in DOMAIN pre
    /\ fin.bad = NoBad

\* C17: for every block file content, when process_file has repaired a
\* file, check_file of the new <path> gives errors = 0 and as many records
\* as repair_file returned, whatever the host answers its reads; and a
\* later run over the file changes nothing: it does not repair again and
\* leaves <path> and <path>.broken as they are.
C17_RepairFixedPoint ==
    /\ Repaired =>
          \A refused \in SUBSET BigReads(RepairedFile) :
              check_file(RepairedFile, range[1], range[2], refused)
                  = <<result[1], 0>>
    /\ LaterRun => (fs = pre /\ ~InRepair)

\* repair_file has written more than the buffer of fout holds: the first
\* block is in <path>.repairing and the rest waits for the flush
PartlyWritten ==
    /\ pc = "repair_file"
    /\ Len(rf.out) > BlockSize
    /\ fs[plus(fname, REPAIRING)] = SubSeq(rf.out, 1, BlockSize)

C17_Witness ==
    /\ pc = "exit" /\ args.repair /\ fname = F1
    /\ plus(F1, BROKEN) \in DOMAIN pre
    /\ cf.done /\ cf.errors = 0 /\ cf.records_read >= 1
    /\ fs = pre
    /\ fs[plus(F1, BROKEN)] # fs[F1]


\* check_file and repair_file in front of the same bytes of the same stream,
\* with the same answer of the host: the iteration of either asks for the
\* same fields, leaves the stream at the same position, ends the loop or
\* not, and repair_file writes a record exactly when check_file counts one.
SameIteration(fo, pos, mem_fails) ==
    LET c0 == [check_file_enter EXCEPT !.pos = pos]
        r0 == [repair_file_enter EXCEPT !.pos = pos]
        c == check_file_iter(fo, c0, range[1], range[2], mem_fails)
        r == repair_file_iter(fo, r0, range[1], range[2], mem_fails)
    IN  /\ c.reads = r.reads
        /\ c.pos = r.pos
        /\ c.done = r.done
        /\ c.records_read = r.records_written
        /\ r.raised = ""
        /\ c.records_read = 1 <=> (c.exc = "" /\ ~c.done /\ c.errors = 0)
        /\ r.records_written = 1 =>
              r.out = SubSeq(fo.data, pos + 1, r.pos)

\* at every position either loop comes to
SameReads ==
    /\ AtCheckLoop => \A m \in BOOLEAN : SameIteration(fin, cf.pos, m)
    /\ AtRepairLoop => \A m \in BOOLEAN : SameIteration(fin, rf.pos, m)

\* the whole scans of a file that reads, on a host that refuses the same
\* reads to both, whichever they are
SameRecords ==
    (pc = "check_file" /\ cf = check_file_enter /\ Readable) =>
        \A refused \in SUBSET BigReads(fin) :
            check_file(fin, range[1], range[2], refused)[1]
                = repair_file(fin, range[1], range[2], refused)

\* C18: on the same bytes and with the same key range check_file and
\* repair_file perform the same reads, iteration by iteration, and
\* repair_file writes as many records as check_file counts.
C18_SameDecodePolicy == SameReads /\ SameRecords

C18_Witness ==
    /\ pc = "repair_file" /\ rf.done /\ Readable
    /\ damage.kind = "key" /\ Len(orig) = 2
    /\ rf.records_written = 1 /\ cf.records_read = 1
    /\ rf.pos = cf.pos /\ cf.errors >= 2


\* the bytes <path> had when process_file was entered are those of <path>
\* or those of <path>.broken
OriginalKept ==
    \/ fname \in DOMAIN fs /\ fs[fname] = pre[fname]
    \/ /\ plus(fname, BROKEN) \in DOMAIN fs
       /\ fs[plus(fname, BROKEN)] = pre[fname]

\* C19: from the moment process_file is entered in repair mode, in every
\* state of it and after it, also where the run has ended with an
\* exception, all the bytes the block file had at that moment are the
\* content of <path> or of <path>.broken.
C19_OriginalNeverLost ==
    (args.repair /\ fname # <<>>) => OriginalKept

C19_Witness ==
    /\ pc = "rename_repaired" /\ args.repair
    /\ fname \notin DOMAIN fs
    /\ fs[plus(fname, BROKEN)] = pre[fname]
    /\ pre[fname] # <<>>
    /\ fs[plus(fname, REPAIRING)] # pre[fname]
    /\ rf.records_written >= 1


\* a file a repair leaves behind: <file>.broken or <file>.repairing
Leftover(f) ==
    endswith(f[Len(f)], BROKEN) \/ endswith(f[Len(f)], REPAIRING)

\* the bucket directory holds such a file, and beside the block files and
\* the archived ones nothing else
LeftoversOnly ==
    /\ \E f \in DOMAIN fs : Leftover(f)
    /\ \A f \in DOMAIN fs :
          (Len(f) = 3 /\ ~endswith(f[3], GZ) /\ ~Leftover(f)) =>
              timestamp(<<f[1], f[2]>>, f[3]).exc = ""

\* the walker: -c and -R never process a leftover file, never repair one,
\* and a walk that ends has counted the block files only
WalkerSkipsLeftovers ==
    /\ InProcessFile => ~Leftover(fname)
    /\ \A f \in DOMAIN fs :
          Leftover(f) =>
              /\ Unresolvable(f)
              /\ plus(f, BROKEN) \notin DOMAIN fs
              /\ plus(f, REPAIRING) \notin DOMAIN fs
    /\ (pc = "exit" /\ args.path = <<CHAN>> /\ NamesResolve) =>
          ck.files = Cardinality(Eligible) /\ ck.files <= 2

\* the generator: a run over a channel with leftover files passes them
\* over and does not end on the exception the name raises
GeneratorSkipsLeftovers ==
    LeftoversOnly =>
        \A f \in DOMAIN gen_out : gen_out[f].exc # "TypeError"

\* C20: the <file>.broken and <file>.repairing a repair leaves behind are
\* skipped by every later run of -c, -R and --generate over the channel:
\* they are not checked, not repaired again and add nothing to the totals.
C20_LeftoversNeverScanned ==
    WalkerSkipsLeftovers /\ GeneratorSkipsLeftovers

\* a size audit of sizes beyond 2^32 that differ by 1
C11_FarSizesSeen ==
    /\ Audited /\ damage.kind = "far" /\ exit_code = 1
    /\ report.diff.records = long(0)
    /\ long_neg(report.diff.size) = long(1)

====
